---- MODULE Spec2Model ----
(***************************************************************************)
(* A model of the BizBuySell scraper / Mailchimp notifier:                 *)
(*   - the periodic driver (src/main.py),                                  *)
(*   - the detail acquisition pool and its shared Selenium session         *)
(*     (src/listing_detail_scraper.py),                                    *)
(*   - the notification engine (src/mailchimp_notifier.py).                *)
(***************************************************************************)
EXTENDS Integers, Sequences, FiniteSets, TLC

(***************************************************************************)
(* Bounds of the model.                                                    *)
(***************************************************************************)
\* longest candidate list handed to one run
MaxCandidates == 2
\* worker threads of a pool built with max_concurrent > 1
PoolWorkers == 2
\* proxy identities the proxy directory can return
NumProxies == 1

(***************************************************************************)
(* Program constants.                                                      *)
(***************************************************************************)
\* max_trials = 2 in _scrape_listing_detail_selenium
max_trials == 2
\* ListingDetailScraper(max_concurrent=1) in main()
MainConcurrent == 1

VARIABLES
    \* ---- ListingDetailScraper object ----
    max_concurrent,     \* self.max_concurrent
    proxy,              \* self.proxy_pwd, _user, _host, _port (0: the '' of __init__)
    driver,             \* self.driver (0: None, else an index of sessions)
    sessions,           \* every browser session created so far
    \* ---- _process_urls_threaded ----
    urls_to_process,    \* the candidate list given to the pool
    nextTask,           \* number of tasks a worker thread has started
    future,             \* future_to_url: the state/result of each task
    collected,          \* futures the collecting loop has consumed
    all_details,
    successful_count,
    failed_count,
    \* ---- worker threads running _scrape_listing_detail_selenium ----
    task,               \* the task a thread runs (0: idle)
    wpc,                \* the thread's position in the method
    trials,             \* the method's local counter
    using,              \* the session the thread navigated with in this attempt
    retval,             \* the value the method is returning
    \* ---- observations of the run (history) ----
    navs,               \* driver.get calls the thread made for its task
    resetAt,            \* the trials of its task that ended in reset_driver
    lastReset,          \* what the thread's latest reset_driver call has done so far
    sharedUse,          \* a session was torn down while another thread used it
    accepted_from,      \* <<task, page kind>> of every accepted extraction (history)
    completion,         \* the tasks in the order their futures were resolved (history)
    \* ---- main(): one cycle of the periodic driver ----
    mainPc,             \* the stage main() is at
    store,              \* the documents of the MongoDB collection
    listing_urls,       \* what URL discovery returned
    filtered_urls,      \* what the freshness filter let through
    pool_result,        \* what process_urls_directly returned
    notify_calls,       \* the batches notify_subscribers was called with
    cycle_result,       \* what main() returned
    cycle,              \* the number of the main() call of the periodic driver
    \* ---- MailchimpNotifier.notify ----
    notifyPc,           \* the stage notify() is at
    batch,              \* filtered_listing_details
    subs,               \* subscribers_response.get('members', [])
    matches,            \* email -> matched listings, in insertion order
    groups,             \* listings_hash -> (emails, listings), in insertion order
    gi,                 \* the position of the dispatch loop in groups
    segment_id,         \* the segment of the group being dispatched (0: None)
    emails_sent,
    groups_processed,
    summary,            \* what notify() returned
    \* ---- the Mailchimp account ----
    audience,           \* the members of the list
    segments,           \* the static segments created, by id
    campaigns,          \* the campaigns created, by id
    dispatch_log,       \* what happened to each group the loop reached (history)
    list_id,            \* the list_id argument of notify() (None: not passed)
    self_list_id,       \* self.list_id, from MAILCHIMP_LIST_ID
    targets,            \* the list each platform operation was given (history)
    \* ---- _save_details_to_mongo on its own ----
    savePc,             \* "save": a call is due, "saved": it returned
    details,            \* the list the call is given
    new_count,          \* what the call returned
    writes,             \* the records written so far, in the order applied (history)
    save_run,           \* the number of calls so far
    \* ---- ListingURLScraper._try_real_scraping ----
    urlPc,              \* the line get_urls_only() is at ("idle": not in a call)
    proxy_list          \* proxy_data.get("results", [])

scraperVars == <<max_concurrent, proxy, driver, sessions>>
poolVars == <<urls_to_process, nextTask, future, collected, all_details,
              successful_count, failed_count>>
threadVars == <<task, wpc, trials, using, retval>>
histVars == <<navs, resetAt, lastReset, sharedUse, accepted_from, completion>>
mainVars == <<mainPc, store, listing_urls, filtered_urls, pool_result,
              notify_calls, cycle_result, cycle>>
notifyVars == <<notifyPc, batch, subs, matches, groups, gi, segment_id,
                emails_sent, groups_processed, summary,
                audience, segments, campaigns, dispatch_log,
                list_id, self_list_id, targets>>
saveVars == <<savePc, details, new_count, writes, save_run>>
urlVars == <<urlPc, proxy_list>>
vars == <<scraperVars, poolVars, threadVars, histVars, mainVars, notifyVars,
          saveVars, urlVars>>

(***************************************************************************)
(* Values.                                                                 *)
(***************************************************************************)
\* what the site can answer to a navigation that returns: the access-denied
\* page, a listing page with asking price and location, a listing page
\* lacking one of them, and such a page carrying the "starting bid" marker
PageKinds == {"denied", "full", "partial", "auction"}
\* the exceptions driver.get / page_source can raise, as the handlers tell
\* them apart
NavErrors == {"TimeoutException", "WebDriverException", "Exception"}
ProxyPool == 1..NumProxies

Workers == 1..max_concurrent
Tasks == 1..Len(urls_to_process)

\* the Optional[Dict] a task returns: <<>> is None, <<d>> is the dict d
None == <<>>
Some(d) == <<d>>

\* d.get(k): None, '' and [] are all <<>>
get(d, k) == IF k \in DOMAIN d THEN d[k] ELSE None

\* Driver(...): a new browser window, no page yet; it is bound to the
\* identity self.proxy_* holds when it is created
NewSession == [live |-> TRUE, cand |-> 0, kind |-> "blank"]
\* a session Selenium commands still work on
Usable(d) == d # 0 /\ sessions[d].live
NoReset == [happened |-> FALSE, before |-> 0, closeRaised |-> FALSE,
            reselected |-> FALSE, created |-> FALSE, denied |-> FALSE]

(***************************************************************************)
(* Session manager: _set_proxy, _create_driver, the teardown of a session. *)
(***************************************************************************)
\* self.proxy_pwd, proxy_user, proxy_host, proxy_port, in the order
\* _set_proxy assigns them, when all four come from directory entry p
\* (0: the empty strings of __init__)
Identity(p) == [i \in 1..4 |-> p]
NoIdentity == Identity(0)

\* the entries of the directory that lack a key: <<p, k>> is an entry of
\* proxy p that holds the first k of the keys password, username,
\* proxy_address, port, in the order _set_proxy reads them
PartialEntries == ProxyPool \X (1..3)

\* the outcomes of the proxy-list request and random.choice, <<p, k>>: an
\* entry of proxy p was chosen and its first k keys could be read (k = 4: a
\* complete entry); <<0, 0>> is an exception before any field is assigned
\* (the request, the JSON, an empty list, an entry without 'password')
ProxyFetches == {<<0, 0>>} \cup (ProxyPool \X {4}) \cup PartialEntries

\* _set_proxy: the identity after the call; the fields are assigned one
\* after the other inside the try, so an exception is swallowed with the
\* fields assigned before it changed and the others as they were
set_proxy(p, k) == [i \in 1..4 |-> IF i <= k THEN p ELSE proxy[i]]

\* _create_driver: the sessions and the returned handle (0: None)
create_driver(ss, ok) ==
    IF ok THEN [sessions |-> Append(ss, NewSession), handle |-> Len(ss) + 1]
    ELSE [sessions |-> ss, handle |-> 0]

\* the page the session shows carries the access-denied text
access_denied(d) == Usable(d) /\ sessions[d].kind = "denied"

\* close() of the session's only window: no command works on it afterwards
teardown(ss, d) ==
    [ss EXCEPT ![d] = [live |-> FALSE, cand |-> 0, kind |-> "blank"]]

(***************************************************************************)
(* _scrape_listing_detail_selenium, one thread w, step by step.  Every     *)
(* step reads self.driver anew, as the method does.                        *)
(***************************************************************************)
\* what the chat-completion call of an enrichment method can end in: a JSON
\* object, an exception of the client, a text that is no JSON, a JSON value
\* that is no object
AiOutcomes == {"object", "error", "malformed", "non_object"}

\* ai_extract_city_and_state: json.loads(response_text) is returned as it
\* is; a JSONDecodeError is logged and the method falls off its end (None);
\* any other exception gives {}
ai_extract_city_and_state(outcome) ==
    CASE outcome = "object" -> [type |-> "dict", keys |-> {"state", "city"}]
      [] outcome = "error" -> [type |-> "dict", keys |-> {}]
      [] outcome = "malformed" -> [type |-> "NoneType", keys |-> {}]
      [] outcome = "non_object" -> [type |-> "list", keys |-> {}]

\* self.categories, the predefined categories; lines 68-75
categories ==
    {"Agriculture", "Automotive", "Boat", "Beauty", "Personal Care",
     "Building", "Construction", "Communication", "Media", "Education",
     "Children", "Entertainment", "Recreation", "Financial Services",
     "Health Care", "Fitness", "Manufacturing", "Non-classifiable Establishments",
     "Online", "Technology", "Pet Services", "Restaurants", "Food",
     "Retail", "Service Businesses", "Real Estate"}

\* JSON values the answer can hold under "category", with what `for cat in
\* categories` yields of each: an array of strings (its items), a string
\* (its characters), an object (its keys, in their order), null and a
\* number (nothing: the iteration raises TypeError)
JList(items) == [type |-> "list", items |-> items]
JStr(chars) == [type |-> "str", items |-> chars]
JDict(keys) == [type |-> "dict", items |-> keys]
JNull == [type |-> "NoneType", items |-> <<>>]
JNum == [type |-> "int", items |-> <<>>]

\* the types of JSON values a for loop iterates
Iterable == {"list", "str", "dict"}

\* what the chat completion gives categorize_listing: the outcome, and for
\* a JSON object whether it has the key "category" and what is under it
Answer(outcome, has_category, value) ==
    [outcome |-> outcome, has_category |-> has_category, category |-> value]
CategoryAnswers ==
    { Answer(outcome, FALSE, JNull) : outcome \in AiOutcomes }
    \cup { Answer("object", TRUE, value) :
             value \in { JList(<<"Retail">>), JList(<<"Retail", "Food">>),
                         JList(<<"Retail", "Gastro">>), JList(<<"Gastro">>),
                         JList(<<"retail">>), JList(<<"Retail", "Retail">>),
                         JList(<<>>), JStr(<<"R", "e", "t", "a", "i", "l">>),
                         JDict(<<"Retail">>), JDict(<<"Gastro", "Retail">>),
                         JDict(<<"Gastro">>), JDict(<<>>),
                         JNull, JNum } }

\* [category] if category else []
fallback_categories(category) == IF category # "" THEN <<category>> ELSE <<>>

\* a method that hands back what the answer holds as it is
categorize_listing_unvalidated(category, answer) ==
    IF /\ answer.outcome = "object"
       /\ answer.has_category
       /\ answer.category.type \in Iterable
       /\ answer.category.items # <<>>
    THEN [type |-> "list", items |-> answer.category.items, fallback |-> FALSE]
    ELSE [type |-> "list", items |-> fallback_categories(category), fallback |-> TRUE]

\* categorize_listing, lines 597-627: result.get('category', []) is
\* iterated whatever it is and what it yields that is predefined is
\* returned (the valid items of an array, the valid keys of an object; no
\* character of a string is a category); when nothing is valid the result
\* is [category] if category else []. A failed call, a text that is no
\* JSON, result.get on a value that is no object and the iteration of null
\* or of a number raise inside the method's own try, whose handlers return
\* the same fallback
categorize_listing(category, answer) ==
    LET given == IF answer.has_category THEN answer.category ELSE JList(<<>>)
        raises == answer.outcome # "object" \/ given.type \notin Iterable
        valid_categories == SelectSeq(given.items, LAMBDA cat : cat \in categories)
    IN IF ~raises /\ valid_categories # <<>>
       THEN [type |-> "list", items |-> valid_categories, fallback |-> FALSE]
       ELSE [type |-> "list", items |-> fallback_categories(category), fallback |-> TRUE]

\* what the page of each kind holds for the acceptance rule: a "partial"
\* page shows a price and no location, an "auction" page a location and a
\* starting bid in place of the price
asking_price_of(kind) == IF kind \in {"full", "partial"} THEN "$250,000" ELSE ""
location_of(kind) == IF kind \in {"full", "auction"} THEN "Las Vegas, NV" ELSE ""

\* a rule that asks for the asking price alone
acceptance_rule_price_only(kind) == asking_price_of(kind) # ""

\* the acceptance rule of _extract_detail_data:
\* json_data.get('asking_price') and location
acceptance_rule(kind) == asking_price_of(kind) # "" /\ location_of(kind) # ""

\* the enrichment of an accepted page: location.get on a value that is no
\* dict raises, and the except of _extract_detail_data returns None
enriched(cat_answer, loc_outcome) ==
    /\ categorize_listing("", cat_answer).type = "list"
    /\ ai_extract_city_and_state(loc_outcome).type = "dict"

\* whether the enrichment of an accepted page goes through, over the
\* answers the two chat completions can give
EnrichmentOutcomes ==
    { enriched(cat_answer, loc_outcome) :
        cat_answer \in CategoryAnswers, loc_outcome \in AiOutcomes }

\* the dict _extract_detail_data builds for url_data from the page shown:
\* url comes from url_data, listing_id from the page's productId when it
\* has one, else from url_data
detail_data(url_data, pg) ==
    [url |-> url_data.url,
     listing_id |-> IF pg.cand # 0 /\ urls_to_process[pg.cand].listing_id # ""
                    THEN urls_to_process[pg.cand].listing_id
                    ELSE url_data.listing_id]

\* a method that resets the session before it hands back its value
ReturnAfterReset(w, v) ==
    /\ retval' = [retval EXCEPT ![w] = v]
    /\ wpc' = [wpc EXCEPT ![w] = IF v = None THEN "return" ELSE "reset"]
    /\ using' = [using EXCEPT ![w] = 0]
    /\ UNCHANGED <<task, trials>>

\* return v: the method is left with value v
Return(w, v) ==
    /\ retval' = [retval EXCEPT ![w] = v]
    /\ wpc' = [wpc EXCEPT ![w] = "return"]
    /\ using' = [using EXCEPT ![w] = 0]
    /\ UNCHANGED <<task, trials>>

\* the urls process_urls_directly treats as scraped already: it starts the
\* run with set() and nothing adds a url to it
recent_scrapped_listings_urls == {}

\* a free thread takes the next submitted task; lines 242-254
StartTask(w) ==
    /\ wpc[w] = "idle"
    /\ nextTask < Len(urls_to_process)
    /\ nextTask' = nextTask + 1
    /\ LET i == nextTask + 1
       IN IF \/ urls_to_process[i].url = ""
             \/ urls_to_process[i].url \in recent_scrapped_listings_urls
          THEN /\ task' = [task EXCEPT ![w] = i]
               /\ retval' = [retval EXCEPT ![w] = None]
               /\ wpc' = [wpc EXCEPT ![w] = "return"]
               /\ UNCHANGED <<trials, using>>
          ELSE /\ task' = [task EXCEPT ![w] = i]
               /\ wpc' = [wpc EXCEPT ![w] = "loop"]
               /\ trials' = [trials EXCEPT ![w] = 1]
               /\ UNCHANGED <<using, retval>>
    /\ UNCHANGED <<scraperVars, urls_to_process, future, collected, all_details,
                   successful_count, failed_count, histVars>>
    /\ UNCHANGED <<mainVars, notifyVars, saveVars, urlVars>>

\* a bound one too large
loop_exhausted_off_by_one(t) == t > max_trials + 1

\* the negation of the loop condition, while trials <= max_trials
loop_exhausted(t) == t > max_trials

\* while trials <= max_trials: if not self.driver: return None; lines 256-259
LoopCheck(w) ==
    /\ wpc[w] = "loop"
    /\ IF loop_exhausted(trials[w]) \/ driver = 0
       THEN Return(w, None)
       ELSE /\ wpc' = [wpc EXCEPT ![w] = "get"]
            /\ UNCHANGED <<task, trials, using, retval>>
    /\ UNCHANGED <<scraperVars, poolVars, histVars>>
    /\ UNCHANGED <<mainVars, notifyVars, saveVars, urlVars>>

\* self.driver.get(url); line 265. When another thread's reset_driver has
\* left self.driver None, the attribute lookup raises before any request
Navigate(w) ==
    /\ wpc[w] = "get"
    /\ navs' = IF driver = 0 THEN navs ELSE [navs EXCEPT ![w] = @ + 1]
    /\ IF ~Usable(driver)
       THEN /\ wpc' = [wpc EXCEPT ![w] = "reset"]
            /\ UNCHANGED <<sessions, using>>
       ELSE \/ \E kind \in PageKinds :
                /\ sessions' = [sessions EXCEPT ![driver] =
                                  [@ EXCEPT !.cand = task[w], !.kind = kind]]
                /\ using' = [using EXCEPT ![w] = driver]
                /\ wpc' = [wpc EXCEPT ![w] = "check"]
            \/ \E lost \in { e[2] : e \in { x \in NavErrors \X BOOLEAN :
                                            x[2] => x[1] = "WebDriverException" } } :
                /\ sessions' = [sessions EXCEPT ![driver] =
                                  [@ EXCEPT !.live = ~lost, !.cand = 0, !.kind = "blank"]]
                /\ wpc' = [wpc EXCEPT ![w] = "reset"]
                /\ UNCHANGED using
    /\ UNCHANGED <<max_concurrent, proxy, driver, poolVars, task, trials, retval,
                   resetAt, lastReset, sharedUse, accepted_from, completion>>
    /\ UNCHANGED <<mainVars, notifyVars, saveVars, urlVars>>

\* the access-denied scan, then the wait for span.f-l whose result is not
\* looked at; lines 268-276 (the helpers swallow every error)
CheckDenied(w) ==
    /\ wpc[w] = "check"
    /\ IF access_denied(driver)
       THEN /\ wpc' = [wpc EXCEPT ![w] = "reset"]
            /\ using' = [using EXCEPT ![w] = 0]
       ELSE /\ wpc' = [wpc EXCEPT ![w] = "extract"]
            /\ UNCHANGED using
    /\ UNCHANGED <<scraperVars, poolVars, task, trials, retval, histVars>>
    /\ UNCHANGED <<mainVars, notifyVars, saveVars, urlVars>>

\* _extract_detail_data(self.driver.page_source, url_data); lines 279-283
Extract(w) ==
    /\ wpc[w] = "extract"
    /\ IF ~Usable(driver)
       THEN /\ wpc' = [wpc EXCEPT ![w] = "reset"]
            /\ using' = [using EXCEPT ![w] = 0]
            /\ UNCHANGED <<task, trials, retval, accepted_from>>
       ELSE IF acceptance_rule(sessions[driver].kind)
            THEN \E ok \in EnrichmentOutcomes :
                    IF ok
                    THEN /\ Return(w, Some(detail_data(urls_to_process[task[w]],
                                                       sessions[driver])))
                         /\ accepted_from' = accepted_from
                               \cup {<<task[w], sessions[driver].kind>>}
                    ELSE /\ wpc' = [wpc EXCEPT ![w] = "bid"]
                         /\ UNCHANGED <<task, trials, using, retval, accepted_from>>
            ELSE /\ wpc' = [wpc EXCEPT ![w] = "bid"]
                 /\ UNCHANGED <<task, trials, using, retval, accepted_from>>
    /\ UNCHANGED <<scraperVars, poolVars, navs, resetAt, lastReset, sharedUse,
                   completion>>
    /\ UNCHANGED <<mainVars, notifyVars, saveVars, urlVars>>

\* a lookup that never finds the element
bid_post_never(kind) == FALSE

\* get_element(driver, "//*[contains(..., 'starting bid')]") finds an element
bid_post(kind) == kind = "auction"

\* the "starting bid" lookup after a failed extraction; lines 284-290
BidCheck(w) ==
    /\ wpc[w] = "bid"
    /\ IF Usable(driver) /\ bid_post(sessions[driver].kind)
       THEN Return(w, None)
       ELSE /\ wpc' = [wpc EXCEPT ![w] = "reset"]
            /\ using' = [using EXCEPT ![w] = 0]
            /\ UNCHANGED <<task, trials, retval>>
    /\ UNCHANGED <<scraperVars, poolVars, histVars>>
    /\ UNCHANGED <<mainVars, notifyVars, saveVars, urlVars>>

\* the lines of reset_driver a thread can be at; no lock is held, so the
\* other threads run between them
ResetStages == {"reset", "quit", "set_proxy", "create"}

\* reset_driver is left, by its last line or by `except: pass`; then
\* finally: trials += 1 and the loop goes on
EndReset(w) ==
    /\ resetAt' = [resetAt EXCEPT ![w] = @ \cup {trials[w]}]
    /\ trials' = [trials EXCEPT ![w] = @ + 1]
    /\ wpc' = [wpc EXCEPT ![w] = "loop"]

\* self.reset_driver() of a failed attempt, its first call:
\* self.driver.close(). It raises when self.driver is None or the session
\* takes no command, and can raise on a session that does
ResetClose(w) ==
    /\ wpc[w] = "reset"
    /\ using' = [using EXCEPT ![w] = 0]
    /\ \E closeOk \in (IF Usable(driver) THEN BOOLEAN ELSE {FALSE}) :
          /\ lastReset' = [lastReset EXCEPT ![w] =
                              [happened |-> TRUE, before |-> driver,
                               closeRaised |-> ~closeOk, reselected |-> FALSE,
                               created |-> FALSE, denied |-> access_denied(driver)]]
          /\ IF closeOk
             THEN /\ sessions' = teardown(sessions, driver)
                  /\ sharedUse' = (sharedUse
                                   \/ \E o \in Workers \ {w} : using[o] = driver)
                  /\ wpc' = [wpc EXCEPT ![w] = "quit"]
                  /\ UNCHANGED <<trials, resetAt>>
             ELSE /\ EndReset(w)
                  /\ UNCHANGED <<sessions, sharedUse>>
    /\ UNCHANGED <<max_concurrent, proxy, driver, poolVars, task, retval, navs,
                   accepted_from, completion>>
    /\ UNCHANGED <<mainVars, notifyVars, saveVars, urlVars>>

\* self.driver.quit() of the session whose window was closed; when it
\* raises, the window stays closed and nothing after it runs
ResetQuit(w) ==
    /\ wpc[w] = "quit"
    /\ \E quitOk \in (IF driver # 0 THEN BOOLEAN ELSE {FALSE}) :
          IF quitOk
          THEN /\ wpc' = [wpc EXCEPT ![w] = "set_proxy"]
               /\ UNCHANGED <<trials, resetAt, lastReset>>
          ELSE /\ lastReset' = [lastReset EXCEPT ![w].closeRaised = TRUE]
               /\ EndReset(w)
    /\ UNCHANGED <<scraperVars, poolVars, task, using, retval, navs, sharedUse,
                   accepted_from, completion>>
    /\ UNCHANGED <<mainVars, notifyVars, saveVars, urlVars>>

\* self._set_proxy(): the request to the proxy directory
ResetSetProxy(w) ==
    /\ wpc[w] = "set_proxy"
    /\ \E fetched \in ProxyFetches :
          /\ proxy' = set_proxy(fetched[1], fetched[2])
          /\ lastReset' = [lastReset EXCEPT ![w].reselected = (fetched[2] = 4)]
    /\ wpc' = [wpc EXCEPT ![w] = "create"]
    /\ UNCHANGED <<max_concurrent, driver, sessions, poolVars, task, trials, using,
                   retval, navs, resetAt, sharedUse, accepted_from, completion>>
    /\ UNCHANGED <<mainVars, notifyVars, saveVars, urlVars>>

\* self.driver = self._create_driver(): Driver(...) starts the browser and
\* the handle (None when it failed) is assigned; no other thread can refer
\* to the new session before the assignment
ResetCreate(w) ==
    /\ wpc[w] = "create"
    /\ \E createOk \in BOOLEAN :
          LET made == create_driver(sessions, createOk)
          IN /\ sessions' = made.sessions
             /\ driver' = made.handle
             /\ lastReset' = [lastReset EXCEPT ![w].created = createOk]
    /\ EndReset(w)
    /\ UNCHANGED <<max_concurrent, proxy, poolVars, task, using, retval, navs,
                   sharedUse, accepted_from, completion>>
    /\ UNCHANGED <<mainVars, notifyVars, saveVars, urlVars>>

\* the method has returned: the task's future holds its value and the
\* thread is free for the next task
Complete(w) ==
    /\ wpc[w] = "return"
    /\ future' = [future EXCEPT ![task[w]] = [state |-> "done", detail |-> retval[w]]]
    /\ task' = [task EXCEPT ![w] = 0]
    /\ wpc' = [wpc EXCEPT ![w] = "idle"]
    /\ trials' = [trials EXCEPT ![w] = 0]
    /\ retval' = [retval EXCEPT ![w] = None]
    /\ navs' = [navs EXCEPT ![w] = 0]
    /\ resetAt' = [resetAt EXCEPT ![w] = {}]
    /\ lastReset' = [lastReset EXCEPT ![w] = NoReset]
    /\ completion' = Append(completion, task[w])
    /\ UNCHANGED <<scraperVars, urls_to_process, nextTask, collected, all_details,
                   successful_count, failed_count, using, sharedUse,
                   accepted_from>>
    /\ UNCHANGED <<mainVars, notifyVars, saveVars, urlVars>>

(***************************************************************************)
(* _process_urls_threaded: the collecting loop over the futures, in the    *)
(* order the tasks were submitted.                                         *)
(***************************************************************************)
\* a collecting loop that puts each new detail in front
append_detail_in_front(ds, detail) == <<detail>> \o ds

\* all_details.append(detail)
append_detail(ds, detail) == Append(ds, detail)

Collect ==
    /\ collected < Len(urls_to_process)
    /\ future[collected + 1].state = "done"
    /\ collected' = collected + 1
    /\ LET detail == future[collected + 1].detail
       IN IF detail # None
          THEN /\ all_details' = append_detail(all_details, detail[1])
               /\ successful_count' = successful_count + 1
               /\ UNCHANGED failed_count
          ELSE /\ failed_count' = failed_count + 1
               /\ UNCHANGED <<all_details, successful_count>>
    /\ UNCHANGED <<scraperVars, urls_to_process, nextTask, future, threadVars, histVars>>
    /\ UNCHANGED <<mainVars, notifyVars, saveVars, urlVars>>

(***************************************************************************)
(* _process_urls_threaded, after the loop: nothing is saved when no task   *)
(* produced a dict; else one bulk upsert, whose failure is swallowed.      *)
(***************************************************************************)
\* a filter that is the url for every dict
upsert_key_url_only(d) == "url"

\* the filter of the UpdateOne built for dict d; line 500
upsert_key(d) == IF d.listing_id # "" THEN "listing_id" ELSE "url"

RECURSIVE first_match(_, _, _)
\* the index of the first document of st whose field k equals d's (0: none)
first_match(st, k, d) ==
    IF st = <<>> THEN 0
    ELSE IF st[1][k] = d[k] THEN 1
    ELSE LET r == first_match(Tail(st), k, d) IN IF r = 0 THEN 0 ELSE r + 1

\* {'$set': d} applied to a document: d's fields replace or extend doc's
set_fields(doc, d) ==
    [k \in DOMAIN doc \cup DOMAIN d |-> IF k \in DOMAIN d THEN d[k] ELSE doc[k]]

\* UpdateOne(key, {'$set': d}, upsert=True) applied to the collection
upsert(st, d) ==
    LET i == first_match(st, upsert_key(d), d)
    IN IF i = 0 THEN Append(st, d) ELSE [st EXCEPT ![i] = set_fields(@, d)]

RECURSIVE apply_operations(_, _)
\* the collection after the server has applied the operations ds one after
\* the other
apply_operations(st, ds) ==
    IF ds = <<>> THEN st ELSE apply_operations(upsert(st, Head(ds)), Tail(ds))

RECURSIVE bulk_count(_, _)
\* len(result.upserted_ids) + result.modified_count of a bulk write: an
\* operation that finds no document upserts, one that changes the document
\* it finds modifies
bulk_count(st, ds) ==
    IF ds = <<>> THEN 0
    ELSE LET d == Head(ds)
             i == first_match(st, upsert_key(d), d)
         IN (IF i = 0 \/ set_fields(st[i], d) # st[i] THEN 1 ELSE 0)
            + bulk_count(upsert(st, d), Tail(ds))

\* the operations of a bulk of n the server has applied, in the order it
\* applied them: with ordered=False any order, and all of them unless the
\* call raises (an operation that fails does not stop the others; the
\* connection can be lost before, amid or after the writes)
AppliedOrders(n, raised) ==
    { o \in UNION { [1..k -> 1..n] : k \in 0..n } :
        /\ \A i, j \in DOMAIN o : i # j => o[i] # o[j]
        /\ ~raised => Len(o) = n }

\* self.mongo_col.bulk_write(ops, ordered=False) for the details ds: what
\* the call can end in (raised: it threw; applied: the records written, in
\* the order applied; count: upserts + modified of the result)
bulk_write(st, ds) ==
    { [raised |-> raised,
       applied |-> [i \in DOMAIN o |-> ds[o[i]]],
       store |-> apply_operations(st, [i \in DOMAIN o |-> ds[o[i]]]),
       count |-> bulk_count(st, [i \in DOMAIN o |-> ds[o[i]]])] :
         <<o, raised>> \in
            UNION { AppliedOrders(Len(ds), r) \X {r} : r \in BOOLEAN } }

\* _save_details_to_mongo(details): what the call can end in: the
\* collection afterwards, the value returned and the records written; an
\* exception of bulk_write is logged and 0 is returned
save_details_to_mongo(st, ds) ==
    IF ds = <<>>
    THEN { [store |-> st, count |-> 0, applied |-> <<>>] }
    ELSE { [store |-> b.store, count |-> IF b.raised THEN 0 ELSE b.count,
            applied |-> b.applied] : b \in bulk_write(st, ds) }


\* what process_urls_directly hands back: 0 or the list all_details
Zero == [is_list |-> FALSE, items |-> <<>>]
ListOf(ds) == [is_list |-> TRUE, items |-> ds]

\* lines 193-205: `return 0` when no record was produced; else the call of
\* _save_details_to_mongo, whose count is not looked at, and all_details
FinishPool ==
    /\ mainPc = "pool"
    /\ collected = Len(urls_to_process)
    /\ mainPc' = "stats"
    /\ IF all_details = <<>>
       THEN /\ pool_result' = Zero
            /\ UNCHANGED store
       ELSE /\ pool_result' = ListOf(all_details)
            /\ \E st \in { r.store : r \in save_details_to_mongo(store, all_details) } :
                  store' = st
    /\ UNCHANGED <<scraperVars, poolVars, threadVars, histVars, listing_urls,
                   filtered_urls, notify_calls, cycle_result, notifyVars, saveVars, urlVars,
                   cycle>>

(***************************************************************************)
(* main(): discovery, freshness filter, acquisition, notification.         *)
(***************************************************************************)
CandidateLists(S) == UNION { [1..n -> S] : n \in 1..MaxCandidates }

\* what discovery can return: every candidate has a title and a url
\* (_parse_listing_url), the productId may be missing
CycleCandidates ==
    { [url |-> "u1", listing_id |-> "L1"],
      [url |-> "u2", listing_id |-> "L2"],
      [url |-> "u3", listing_id |-> ""] }

\* what earlier cycles can have left in the collection: listing L1 under
\* its present url or under an earlier one, and the id-less listing
StoreChoices ==
    { <<>>,
      << [url |-> "u1-old", listing_id |-> "L1"] >>,
      << [url |-> "u1", listing_id |-> "L1"], [url |-> "u3", listing_id |-> ""] >> }

Range(f) == { f[i] : i \in DOMAIN f }

\* a main() whose failure ends the process
ReturnMainOrExit(v) ==
    /\ cycle_result' = v
    /\ mainPc' = IF v = "False" THEN "exit" ELSE "done"

\* main() returns v
ReturnMain(v) ==
    /\ cycle_result' = v
    /\ mainPc' = "done"

\* what the "results" of the proxy directory can hold: no proxy, or some
ProxyLists == { [i \in 1..n |-> i] : n \in 0..NumProxies }

\* _try_real_scraping, lines 54-60: the request to the proxy directory and
\* response.json(); an exception leaves the page loop through the outer
\* except and get_urls_only() returns [], which ends main() with False
FetchProxyList ==
    /\ mainPc = "discover"
    /\ urlPc = "proxies"
    /\ \/ /\ proxy_list' \in ProxyLists
          /\ urlPc' = "request"
          /\ UNCHANGED <<mainPc, cycle_result>>
       \/ /\ ReturnMain("False")
          /\ urlPc' = "idle"
          /\ UNCHANGED proxy_list
    /\ UNCHANGED <<scraperVars, poolVars, threadVars, histVars, store, listing_urls,
                   filtered_urls, pool_result, notify_calls, notifyVars, saveVars,
                   cycle>>

\* one pass of the inner `while True`, lines 61-92: without a proxy the
\* RuntimeError of line 66 is caught by the bare except of line 89; with one,
\* the index page is requested and a status other than 200 or an exception
\* leads to the sleep, status 200 leaves the loop
RequestIndexPage ==
    /\ mainPc = "discover"
    /\ urlPc = "request"
    /\ IF proxy_list = <<>>
       THEN urlPc' = "sleep"
       ELSE \E outcome \in {"200", "other status", "raised"} :
               urlPc' = IF outcome = "200" THEN "parse" ELSE "sleep"
    /\ UNCHANGED <<scraperVars, poolVars, threadVars, histVars, mainVars, notifyVars,
                   saveVars, proxy_list>>

\* time.sleep(10); continue, lines 84-86 and 90-92
RetryAfterSleep ==
    /\ mainPc = "discover"
    /\ urlPc = "sleep"
    /\ urlPc' = "request"
    /\ UNCHANGED <<scraperVars, poolVars, threadVars, histVars, mainVars, notifyVars,
                   saveVars, proxy_list>>

\* Step 1: url_scraper.get_urls_only(); lines 35-42
Discover ==
    /\ mainPc = "discover"
    /\ urlPc = "parse"
    /\ \E cs \in CandidateLists(CycleCandidates) \cup {<<>>} :
          /\ listing_urls' = cs
          /\ IF cs = <<>>
             THEN ReturnMain("False")
             ELSE /\ mainPc' = "filter"
                  /\ UNCHANGED cycle_result
    /\ urlPc' = "idle"
    /\ proxy_list' = <<>>
    /\ UNCHANGED <<scraperVars, poolVars, threadVars, histVars, store,
                   filtered_urls, pool_result, notify_calls, notifyVars, saveVars,
                   cycle>>

\* url_list, existing, filtered_urls; lines 61-63
existing_urls(st, cs) ==
    LET url_list == { c.url : c \in { x \in Range(cs) : x.url # "" } }
    IN { d.url : d \in { x \in Range(st) : x.url \in url_list } }

freshness_filter(st, cs) ==
    LET existing == existing_urls(st, cs)
    IN SelectSeq(cs, LAMBDA u : u.url \notin existing)

\* a lookup whose failure is swallowed: every candidate counts as new
filter_outcome_all_new(found, st, cs) ==
    [raised |-> FALSE,
     filtered_urls |-> IF found THEN freshness_filter(st, cs) ELSE cs]

\* lines 57-63 inside main()'s try: an exception of col.find propagates,
\* else filtered_urls is computed from what the store holds
filter_outcome(found, st, cs) ==
    IF found THEN [raised |-> FALSE, filtered_urls |-> freshness_filter(st, cs)]
    ELSE [raised |-> TRUE, filtered_urls |-> <<>>]

\* Step 1.5: the two col.find calls; a store error leaves main() through
\* its except clause; lines 46-71
Filter ==
    /\ mainPc = "filter"
    /\ \E found \in BOOLEAN :
          LET r == filter_outcome(found, store, listing_urls)
          IN IF r.raised
             THEN /\ ReturnMain("False")
                  /\ UNCHANGED filtered_urls
             ELSE /\ filtered_urls' = r.filtered_urls
                  /\ mainPc' = IF filtered_urls' = <<>> THEN "notify" ELSE "init"
                  /\ UNCHANGED cycle_result
    /\ UNCHANGED <<scraperVars, poolVars, threadVars, histVars, store,
                   listing_urls, pool_result, notify_calls, notifyVars, saveVars, urlVars,
                   cycle>>

\* Step 2: ListingDetailScraper(max_concurrent=1): __init__ sets the proxy
\* and creates the driver; then process_urls_directly submits the tasks.
\* UserAgent(), MongoClient(uri) and openai.OpenAI(api_key) run before the
\* proxy is set and are not guarded: when one raises, the constructor
\* raises and main() returns False from its except clause
ScraperInit ==
    /\ mainPc = "init"
    /\ \E constructed \in BOOLEAN :
          IF constructed
          THEN /\ mainPc' = "pool"
               /\ max_concurrent' = MainConcurrent
               /\ \E fetched \in ProxyFetches, createOk \in BOOLEAN :
                     LET np == set_proxy(fetched[1], fetched[2])
                         made == create_driver(<<>>, createOk)
                     IN /\ proxy' = np
                        /\ sessions' = made.sessions
                        /\ driver' = made.handle
               /\ urls_to_process' = filtered_urls
               /\ future' = [i \in 1..Len(filtered_urls) |->
                                [state |-> "pending", detail |-> None]]
               /\ UNCHANGED cycle_result
          ELSE /\ ReturnMain("False")
               /\ UNCHANGED <<max_concurrent, proxy, sessions, driver,
                              urls_to_process, future>>
    /\ UNCHANGED <<nextTask, collected, all_details, successful_count, failed_count,
                   threadVars, histVars, store, listing_urls,
                   filtered_urls, pool_result, notify_calls, notifyVars, saveVars, urlVars,
                   cycle>>

\* what fetch_subscribers can return to the notifier of main(): no member,
\* a member without merge fields, a member with merge fields ("a@b.c")
member_without_fields == [email_address |-> <<97, 64, 98, 46, 99>>, merge_fields |-> <<>>]
member_with_fields ==
    [email_address |-> <<97, 64, 98, 46, 99>>,
     merge_fields |-> [INDUSTRIES |-> <<>>, STATES |-> <<>>, CITIES |-> <<>>]]
MemberChoices == { <<>>, <<member_without_fields>>, <<member_with_fields>> }

\* `for listing in listings` raises for a subscriber the loop does not skip
\* when listings is the int process_urls_directly returns for no record
iteration_raises(listings, members) ==
    /\ ~listings.is_list
    /\ \E i \in 1..Len(members) :
          /\ get(members[i], "email_address") # <<>>
          /\ get(members[i], "merge_fields") # <<>>

(***************************************************************************)
(* Specifications.                                                         *)
(***************************************************************************)
\* the pool before any list was submitted
PoolIdle(n) ==
    /\ nextTask = 0
    /\ collected = 0
    /\ all_details = <<>>
    /\ successful_count = 0
    /\ failed_count = 0
    /\ task = [w \in 1..n |-> 0]
    /\ wpc = [w \in 1..n |-> "idle"]
    /\ trials = [w \in 1..n |-> 0]
    /\ using = [w \in 1..n |-> 0]
    /\ retval = [w \in 1..n |-> None]
    /\ navs = [w \in 1..n |-> 0]
    /\ resetAt = [w \in 1..n |-> {}]
    /\ lastReset = [w \in 1..n |-> NoReset]
    /\ sharedUse = FALSE
    /\ accepted_from = {}
    /\ completion = <<>>

\* no notify() call is under way
NotifierIdle ==
    /\ notifyPc = "idle"
    /\ batch = <<>>
    /\ subs = <<>>
    /\ matches = <<>>
    /\ groups = <<>>
    /\ gi = 0
    /\ segment_id = 0
    /\ emails_sent = 0
    /\ groups_processed = 0
    /\ summary = <<>>
    /\ audience = <<>>
    /\ segments = <<>>
    /\ campaigns = <<>>
    /\ dispatch_log = <<>>
    /\ list_id = None
    /\ self_list_id = None
    /\ targets = {}

\* no call of get_urls_only() is under way
UrlScraperIdle ==
    /\ urlPc = "idle"
    /\ proxy_list = <<>>

\* no separate call of _save_details_to_mongo is under way
SaveIdle ==
    /\ savePc = "idle"
    /\ details = <<>>
    /\ new_count = 0
    /\ writes = <<>>
    /\ save_run = 0

\* main() at its first line: no local is bound, no scraper is built
MainEntered ==
    /\ mainPc = "discover"
    /\ listing_urls = <<>>
    /\ filtered_urls = <<>>
    /\ pool_result = Zero
    /\ notify_calls = <<>>
    /\ cycle_result = "running"
    /\ urlPc = "proxies"
    /\ proxy_list = <<>>
    /\ NotifierIdle
    /\ SaveIdle
    /\ max_concurrent = MainConcurrent
    /\ proxy = NoIdentity
    /\ driver = 0
    /\ sessions = <<>>
    /\ urls_to_process = <<>>
    /\ future = <<>>
    /\ PoolIdle(MainConcurrent)

\* one cycle of main(), from its first line
Init ==
    /\ MainEntered
    /\ store \in StoreChoices
    /\ cycle = 1

\* the pool on its own: a scraper built with max_concurrent = PoolWorkers
\* has been handed a candidate list
PoolCandidates ==
    { [url |-> "u1", listing_id |-> "L1"],
      [url |-> "u2", listing_id |-> ""],
      [url |-> "", listing_id |-> "L3"] }

InitPool ==
    /\ mainPc = "pool"
    /\ store = <<>>
    /\ listing_urls = <<>>
    /\ \E cs \in CandidateLists(PoolCandidates) :
          /\ filtered_urls = cs
          /\ urls_to_process = cs
          /\ future = [i \in 1..Len(cs) |-> [state |-> "pending", detail |-> None]]
    /\ pool_result = Zero
    /\ notify_calls = <<>>
    /\ cycle_result = "running"
    /\ cycle = 1
    /\ UrlScraperIdle
    /\ NotifierIdle
    /\ SaveIdle
    /\ max_concurrent = PoolWorkers
    /\ proxy = Identity(1)
    /\ driver = 1
    /\ sessions = <<NewSession>>
    /\ PoolIdle(PoolWorkers)

NextPool ==
    \/ \E w \in Workers : StartTask(w)
    \/ \E w \in Workers : LoopCheck(w)
    \/ \E w \in Workers : Navigate(w)
    \/ \E w \in Workers : CheckDenied(w)
    \/ \E w \in Workers : Extract(w)
    \/ \E w \in Workers : BidCheck(w)
    \/ \E w \in Workers : ResetClose(w)
    \/ \E w \in Workers : ResetQuit(w)
    \/ \E w \in Workers : ResetSetProxy(w)
    \/ \E w \in Workers : ResetCreate(w)
    \/ \E w \in Workers : Complete(w)
    \/ Collect
    \/ FinishPool

SpecPool == InitPool /\ [][NextPool]_vars

\* the periodic driver, `while True: main(); time.sleep(86400/2)`: cycles
\* of main() over the collection the cycles before have left
MaxCycles == 2

\* time.sleep(86400/2) returns and main() is called again; main.py lines
\* 119-121. The sessions and the segments, campaigns and calls recorded are
\* those of the cycle under way: what the cycle before left in the browser
\* and in the Mailchimp account is followed no further
NextCycle ==
    /\ mainPc = "done"
    /\ cycle < MaxCycles
    /\ cycle' = cycle + 1
    /\ store' = store
    /\ mainPc' = "discover"
    /\ listing_urls' = <<>>
    /\ filtered_urls' = <<>>
    /\ pool_result' = Zero
    /\ notify_calls' = <<>>
    /\ cycle_result' = "running"
    /\ max_concurrent' = MainConcurrent
    /\ proxy' = NoIdentity
    /\ driver' = 0
    /\ sessions' = <<>>
    /\ urls_to_process' = <<>>
    /\ future' = <<>>
    /\ nextTask' = 0
    /\ collected' = 0
    /\ all_details' = <<>>
    /\ successful_count' = 0
    /\ failed_count' = 0
    /\ accepted_from' = {}
    /\ completion' = <<>>
    /\ urlPc' = "proxies"
    /\ proxy_list' = <<>>
    /\ notifyPc' = "idle"
    /\ batch' = <<>>
    /\ subs' = <<>>
    /\ matches' = <<>>
    /\ groups' = <<>>
    /\ gi' = 0
    /\ segment_id' = 0
    /\ emails_sent' = 0
    /\ groups_processed' = 0
    /\ summary' = <<>>
    /\ audience' = <<>>
    /\ segments' = <<>>
    /\ campaigns' = <<>>
    /\ dispatch_log' = <<>>
    /\ list_id' = None
    /\ self_list_id' = None
    /\ targets' = {}
    /\ UNCHANGED <<threadVars, navs, resetAt, lastReset, sharedUse, saveVars>>

(***************************************************************************)
(* Properties of the acquisition pool and of the cycle.                    *)
(***************************************************************************)
\* C1: a candidate whose attempt ended in reset_driver while attempts remained
\* (a trial below max_trials) has been navigated to again by the time the
\* method returns, whatever the reset did.
C1_ResetNeverDropsCandidate ==
    \A w \in Workers :
        wpc[w] = "return" =>
            \A k \in resetAt[w] : k < max_trials => navs[w] > k

\* the futures the collecting loop has consumed that hold None
FailedSoFar == { i \in 1..collected : future[i].detail = None }

\* C2: no task makes more than max_trials navigations or starts a trial past
\* max_trials + 1; a task that returns without a record has its future hold
\* None, adds nothing to all_details and is counted in failed_count.
C2_AtMostMaxAttempts ==
    /\ \A w \in Workers : navs[w] <= max_trials /\ trials[w] <= max_trials + 1
    /\ \A w \in Workers :
          (wpc[w] = "loop" /\ trials[w] > max_trials) => navs[w] = max_trials
    /\ failed_count = Cardinality(FailedSoFar)
    /\ successful_count = collected - failed_count
    /\ Len(all_details) = successful_count

\* C2 witness: a task has used both attempts, each ending in a reset, is
\* leaving the method without a record, and an earlier one was counted failed
C2_Witness ==
    \E w \in Workers :
        /\ wpc[w] = "return"
        /\ retval[w] = None
        /\ navs[w] = max_trials
        /\ resetAt[w] = 1..max_trials
        /\ failed_count > 0

\* C3: every reset_driver call whose close()/quit() raised has still
\* re-selected the proxy identity and created a new session.
C3_ResetIgnoresCloseError ==
    \A w \in Workers :
        (lastReset[w].happened /\ lastReset[w].closeRaised) =>
            (lastReset[w].reselected /\ lastReset[w].created)

\* C4: no two threads use the same browser session at the same time, and no
\* reset tears down a session another thread is using.
C4_SessionsNotShared ==
    /\ \A w1, w2 \in Workers :
          (w1 # w2 /\ using[w1] # 0) => using[w1] # using[w2]
    /\ ~sharedUse

\* the identifying key of a candidate or document: listing_id, else url
Key(c) == IF c.listing_id # "" THEN c.listing_id ELSE c.url
StoredKeys(st) == { Key(d) : d \in Range(st) }

\* C5: once the freshness filter has run, filtered_urls holds exactly the
\* discovered candidates whose key (listing_id, else url) is no stored key.
C5_FilterByKey ==
    mainPc \in {"init", "notify"} =>
        filtered_urls =
            SelectSeq(listing_urls, LAMBDA c : Key(c) \notin StoredKeys(store))

\* C6: no navigation is made for a candidate whose listing_id is stored, and
\* no session exists when every discovered candidate is stored.
C6_StoredNeverNavigated ==
    /\ \A w \in Workers :
          navs[w] > 0 =>
              ~ /\ urls_to_process[task[w]].listing_id # ""
                /\ \E d \in Range(store) :
                      d.listing_id = urls_to_process[task[w]].listing_id
    /\ (/\ listing_urls # <<>>
        /\ \A c \in Range(listing_urls) : Key(c) \in StoredKeys(store))
          => sessions = <<>>

(***************************************************************************)
(* Strings.  A str is the sequence of its code points, a bytes object the  *)
(* sequence of its bytes; None and the Optional values of the notifier are *)
(* None and Some(v) as above.                                              *)
(***************************************************************************)
\* the element of a one-element set: TheOne({ e(v) : v \in {x} }) is e(x),
\* with x evaluated once
TheOne(S) == CHOOSE x \in S : TRUE

\* str.lower() on the code points below 256
Lower(c) ==
    IF (c >= 65 /\ c <= 90) \/ (c >= 192 /\ c <= 222 /\ c # 215) THEN c + 32 ELSE c
lower(s) == [i \in 1..Len(s) |-> Lower(s[i])]

\* the characters str.strip() removes, below 256
Whitespace == {9, 10, 11, 12, 13, 28, 29, 30, 31, 32, 133, 160}
strip(s) ==
    LET keep == {i \in 1..Len(s) : s[i] \notin Whitespace}
    IN IF keep = {} THEN <<>>
       ELSE SubSeq(s, CHOOSE i \in keep : \A j \in keep : i <= j,
                      CHOOSE i \in keep : \A j \in keep : i >= j)

\* s.replace(c, '') for a one-character c
remove(s, c) == SelectSeq(s, LAMBDA x : x # c)

\* s.split(sep) for a one-character sep
RECURSIVE split(_, _)
split(s, sep) ==
    LET at == {i \in 1..Len(s) : s[i] = sep}
    IN IF at = {} THEN <<s>>
       ELSE LET k == CHOOSE i \in at : \A j \in at : i <= j
            IN <<SubSeq(s, 1, k - 1)>> \o split(SubSeq(s, k + 1, Len(s)), sep)

\* sep.join(parts)
RECURSIVE join(_, _)
join(sep, parts) ==
    IF parts = <<>> THEN <<>>
    ELSE IF Len(parts) = 1 THEN parts[1]
    ELSE parts[1] \o sep \o join(sep, Tail(parts))

\* a < b on str: the order of the first differing code point, else of length
StrLess(a, b) ==
    LET n == IF Len(a) < Len(b) THEN Len(a) ELSE Len(b)
        diff == {i \in 1..n : a[i] # b[i]}
    IN IF diff = {} THEN Len(a) < Len(b)
       ELSE LET k == CHOOSE i \in diff : \A j \in diff : i <= j
            IN a[k] < b[k]

\* sorted(list of str)
RECURSIVE sorted(_)
sorted(l) ==
    IF l = <<>> THEN <<>>
    ELSE TheOne({ SelectSeq(rest, LAMBDA x : StrLess(x, l[1])) \o <<l[1]>>
                    \o SelectSeq(rest, LAMBDA x : ~StrLess(x, l[1])) :
                  rest \in {sorted(Tail(l))} })

\* set(s): the one-character strings of s
set_of_str(s) == { <<s[i]>> : i \in 1..Len(s) }

\* s.encode(): UTF-8, for code points below 2048
encode(s) ==
    LET wide == {i \in 1..Len(s) : s[i] >= 128}
        pos(i) == i + Cardinality({j \in wide : j < i})
    IN IF wide = {} THEN s
       ELSE [k \in 1..(Len(s) + Cardinality(wide)) |->
               LET i == CHOOSE i \in 1..Len(s) :
                            pos(i) = k \/ (i \in wide /\ pos(i) + 1 = k)
               IN IF i \notin wide THEN s[i]
                  ELSE IF pos(i) = k THEN 192 + (s[i] \div 64)
                  ELSE 128 + (s[i] % 64)]

\* float(s) on the strings of the model: decimal digits give their number,
\* anything else raises ValueError (None here)
Digits == 48..57
RECURSIVE digits_value(_)
digits_value(s) ==
    IF s = <<>> THEN 0
    ELSE (10 * digits_value(SubSeq(s, 1, Len(s) - 1))) + (s[Len(s)] - 48)
float(s) ==
    IF s # <<>> /\ \A i \in 1..Len(s) : s[i] \in Digits
    THEN Some(digits_value(s)) ELSE None

(***************************************************************************)
(* hashlib.md5 (RFC 1321) on byte sequences.  A 32-bit word is the pair    *)
(* <<high half, low half>> of its 16-bit halves.                           *)
(***************************************************************************)
\* bit k of a
Bit(a, k) == (a \div (2 ^ k)) % 2
\* the bitwise operations on 4-bit numbers, tabulated
Nibbles == 0..15
AndTab ==
    [a \in Nibbles |-> [b \in Nibbles |->
        (Bit(a, 0) * Bit(b, 0)) + (2 * (Bit(a, 1) * Bit(b, 1)))
          + (4 * (Bit(a, 2) * Bit(b, 2))) + (8 * (Bit(a, 3) * Bit(b, 3)))]]
XorTab ==
    [a \in Nibbles |-> [b \in Nibbles |->
        ((Bit(a, 0) + Bit(b, 0)) % 2) + (2 * ((Bit(a, 1) + Bit(b, 1)) % 2))
          + (4 * ((Bit(a, 2) + Bit(b, 2)) % 2)) + (8 * ((Bit(a, 3) + Bit(b, 3)) % 2))]]
\* nibble k of a 16-bit number
Nibble(a, k) == (a \div (16 ^ k)) % 16
\* the bitwise operations on 16-bit numbers
BitAnd(a, b) ==
    AndTab[Nibble(a, 0)][Nibble(b, 0)] + (16 * AndTab[Nibble(a, 1)][Nibble(b, 1)])
      + (256 * AndTab[Nibble(a, 2)][Nibble(b, 2)]) + (4096 * AndTab[Nibble(a, 3)][Nibble(b, 3)])
BitXor(a, b) ==
    XorTab[Nibble(a, 0)][Nibble(b, 0)] + (16 * XorTab[Nibble(a, 1)][Nibble(b, 1)])
      + (256 * XorTab[Nibble(a, 2)][Nibble(b, 2)]) + (4096 * XorTab[Nibble(a, 3)][Nibble(b, 3)])
BitOr(a, b) == (a + b) - BitAnd(a, b)

WAnd(x, y) == <<BitAnd(x[1], y[1]), BitAnd(x[2], y[2])>>
WOr(x, y) == <<BitOr(x[1], y[1]), BitOr(x[2], y[2])>>
WXor(x, y) == <<BitXor(x[1], y[1]), BitXor(x[2], y[2])>>
WNot(x) == <<65535 - x[1], 65535 - x[2]>>
WAdd(x, y) ==
    LET lo == x[2] + y[2]
        hi == x[1] + y[1] + (lo \div 65536)
    IN <<hi % 65536, lo % 65536>>
\* rotate left by s, 0 <= s < 32
WRotl(x, s) ==
    LET y == IF s >= 16 THEN <<x[2], x[1]>> ELSE x
        r == s % 16
        p == 2 ^ r
        q == 2 ^ (16 - r)
    IN <<((y[1] * p) % 65536) + (y[2] \div q), ((y[2] * p) % 65536) + (y[1] \div q)>>

Md5K ==
    <<
       <<55146, 42104>>, <<59591, 46934>>, <<9248, 28891>>, <<49597, 52974>>,
       <<62844, 4015>>, <<18311, 50730>>, <<43056, 17939>>, <<64838, 38145>>,
       <<27008, 39128>>, <<35652, 63407>>, <<65535, 23473>>, <<35164, 55230>>,
       <<27536, 4386>>, <<64920, 29075>>, <<42617, 17294>>, <<18868, 2081>>,
       <<63006, 9570>>, <<49216, 45888>>, <<9822, 23121>>, <<59830, 51114>>,
       <<54831, 4189>>, <<580, 5203>>, <<55457, 59009>>, <<59347, 64456>>,
       <<8673, 52710>>, <<49975, 2006>>, <<62677, 3463>>, <<17754, 5357>>,
       <<43491, 59653>>, <<64751, 41976>>, <<26479, 729>>, <<36138, 19594>>,
       <<65530, 14658>>, <<34673, 63105>>, <<28061, 24866>>, <<64997, 14348>>,
       <<42174, 59972>>, <<19422, 53161>>, <<63163, 19296>>, <<48831, 48240>>,
       <<10395, 32454>>, <<60065, 10234>>, <<54511, 12421>>, <<1160, 7429>>,
       <<55764, 53305>>, <<59099, 39397>>, <<8098, 31992>>, <<50348, 22117>>,
       <<62505, 8772>>, <<17194, 65431>>, <<43924, 9127>>, <<64659, 41017>>,
       <<25947, 22979>>, <<36620, 52370>>, <<65519, 62589>>, <<34180, 24017>>,
       <<28584, 32335>>, <<65068, 59104>>, <<41729, 17172>>, <<19976, 4513>>,
       <<63315, 32386>>, <<48442, 62005>>, <<10967, 53947>>, <<60294, 54161>>
    >>

Md5S ==
    <<
       7, 12, 17, 22, 7, 12, 17, 22, 7, 12, 17, 22, 7, 12, 17, 22,
       5, 9, 14, 20, 5, 9, 14, 20, 5, 9, 14, 20, 5, 9, 14, 20,
       4, 11, 16, 23, 4, 11, 16, 23, 4, 11, 16, 23, 4, 11, 16, 23,
       6, 10, 15, 21, 6, 10, 15, 21, 6, 10, 15, 21, 6, 10, 15, 21
    >>

Md5Init == << <<26437, 8961>>, <<61389, 43913>>, <<39098, 56574>>, <<4146, 21622>> >>

\* the message padded to a multiple of 64 bytes: 0x80, zeros, and the bit
\* length as a 64-bit little-endian number
Md5Pad(bytes) ==
    TheOne({ b \o <<128>> \o [i \in 1..((119 - (Len(b) % 64)) % 64) |-> 0]
               \o << (8 * Len(b)) % 256, ((8 * Len(b)) \div 256) % 256,
                     ((8 * Len(b)) \div 65536) % 256, (8 * Len(b)) \div 16777216,
                     0, 0, 0, 0 >> :
             b \in {bytes} })

\* word j (0..15) of the block starting after byte `off`
Md5Word(m, off, j) ==
    LET k == off + (4 * j)
    IN <<m[k + 3] + (256 * m[k + 4]), m[k + 1] + (256 * m[k + 2])>>

Md5F(i, b, c, d) ==
    IF i < 16 THEN WOr(WAnd(b, c), WAnd(WNot(b), d))
    ELSE IF i < 32 THEN WOr(WAnd(d, b), WAnd(WNot(d), c))
    ELSE IF i < 48 THEN WXor(b, WXor(c, d))
    ELSE WXor(c, WOr(b, WNot(d)))

Md5G(i) ==
    IF i < 16 THEN i
    ELSE IF i < 32 THEN ((5 * i) + 1) % 16
    ELSE IF i < 48 THEN ((3 * i) + 5) % 16
    ELSE (7 * i) % 16

\* one operation of the block loop; r = [i |-> operations done, st |-> <<a, b, c, d>>]
Md5Step(r, m, off) ==
    TheOne({ [i |-> r.i + 1,
              st |-> <<r.st[4], WAdd(r.st[2], WRotl(f, Md5S[r.i + 1])), r.st[2], r.st[3]>>] :
             f \in { WAdd(WAdd(Md5F(r.i, r.st[2], r.st[3], r.st[4]), r.st[1]),
                          WAdd(Md5K[r.i + 1], Md5Word(m, off, Md5G(r.i)))) } })

\* the operations of the block at off up to operation stop
RECURSIVE Md5Chunk(_, _, _, _)
Md5Chunk(r, stop, m, off) ==
    IF r.i = stop THEN r
    ELSE TheOne({ Md5Chunk(next, stop, m, off) : next \in {Md5Step(r, m, off)} })

\* the 64 operations on the block at off, eight at a time
RECURSIVE Md5Rounds(_, _, _)
Md5Rounds(r, m, off) ==
    IF r.i = 64 THEN r.st
    ELSE TheOne({ Md5Rounds(next, m, off) : next \in {Md5Chunk(r, r.i + 8, m, off)} })

\* the 64 operations on one block, then the addition to the state;
\* h = [off |-> bytes consumed, st |-> <<a, b, c, d>>]
Md5Block(h, m) ==
    TheOne({ [off |-> h.off + 64,
              st |-> <<WAdd(h.st[1], r[1]), WAdd(h.st[2], r[2]),
                       WAdd(h.st[3], r[3]), WAdd(h.st[4], r[4])>>] :
             r \in {Md5Rounds([i |-> 0, st |-> h.st], m, h.off)} })

RECURSIVE Md5Blocks(_, _)
Md5Blocks(h, m) ==
    IF h.off >= Len(m) THEN h.st
    ELSE TheOne({ Md5Blocks(next, m) : next \in {Md5Block(h, m)} })

HexDigits == <<48, 49, 50, 51, 52, 53, 54, 55, 56, 57, 97, 98, 99, 100, 101, 102>>
HexByte(b) == <<HexDigits[(b \div 16) + 1], HexDigits[(b % 16) + 1]>>

\* hashlib.md5(bytes).hexdigest()[:8]: the first four digest bytes, which
\* are word A, low byte first
md5_hexdigest_8(bytes) ==
    TheOne({ HexByte(a[2] % 256) \o HexByte(a[2] \div 256)
               \o HexByte(a[1] % 256) \o HexByte(a[1] \div 256) :
             a \in { TheOne({ Md5Blocks([off |-> 0, st |-> Md5Init], m)[1] :
                              m \in {Md5Pad(bytes)} }) } })

(***************************************************************************)
(* MailchimpNotifier: matching and grouping.  A dict is a function on its  *)
(* keys (the empty dict is <<>>); the dicts matches and groups, whose      *)
(* order of insertion the code iterates in, are sequences of entries.      *)
(***************************************************************************)
\* _normalize_price
normalize_price(value) ==
    IF value = None THEN None
    ELSE float(strip(remove(remove(value, 44), 36)))

\* _normalize_list_field
normalize_list_field(field_value) ==
    IF field_value = <<>> THEN <<>>
    ELSE LET items == split(remove(field_value, 160), 44)
             kept == SelectSeq(items, LAMBDA item : item # <<>> /\ strip(item) # <<>>)
         IN [i \in 1..Len(kept) |-> strip(kept[i])]

\* set(i.lower() for i in self._normalize_list_field(merge_fields.get(name)))
subscriber_set(merge_fields, name) ==
    { lower(i) : i \in Range(normalize_list_field(get(merge_fields, name))) }

\* a merge-field value that is a str (a number is Some(n), no key is None)
Str(s) == <<"str", s>>
is_str(value) == Len(value) = 2

\* the two price tests raise TypeError: a float is compared with a str
price_raises(listing, min_price, max_price) ==
    LET price == normalize_price(get(listing, "asking_price"))
    IN /\ price # None
       /\ \/ min_price # None /\ is_str(min_price)
          \/ /\ ~(min_price # None /\ price[1] < min_price[1])
             /\ max_price # None /\ is_str(max_price)

\* the two price tests of _listing_matches_subscriber, when neither raises
price_condition(listing, min_price, max_price) ==
    LET price == normalize_price(get(listing, "asking_price"))
    IN /\ ~(min_price # None /\ price # None /\ price[1] < min_price[1])
       /\ ~(max_price # None /\ price # None /\ price[1] > max_price[1])

\* an industry test that compares the categories as they are written
industry_condition_case_sensitive(listing, subscriber_industries) ==
    subscriber_industries # {} =>
        subscriber_industries \cap { c \in Range(get(listing, "category")) : c # <<>> } # {}

\* its industry test
industry_condition(listing, subscriber_industries) ==
    subscriber_industries # {} =>
        LET listing_categories == get(listing, "category")
            listing_industries ==
                { strip(lower(cat)) : cat \in {c \in Range(listing_categories) : c # <<>>} }
        IN subscriber_industries \cap listing_industries # {}

\* its state test: set(listing.get('state', '').lower())
state_condition(listing, subscriber_states) ==
    subscriber_states # {} =>
        LET listing_state == set_of_str(lower(get(listing, "state")))
        IN subscriber_states \cap listing_state # {}

\* its city test: set(listing.get('city', '').lower())
city_condition(listing, subscriber_cities) ==
    subscriber_cities # {} =>
        LET listing_city == set_of_str(lower(get(listing, "city")))
        IN subscriber_cities \cap listing_city # {}

listing_matches_subscriber(listing, min_price, max_price, subscriber_industries, subscriber_states, subscriber_cities) ==
    /\ price_condition(listing, min_price, max_price)
    /\ industry_condition(listing, subscriber_industries)
    /\ state_condition(listing, subscriber_states)
    /\ city_condition(listing, subscriber_cities)

\* the listings of the batch one subscriber's preferences select
matched_listings(merge_fields, listings) ==
    SelectSeq(listings, LAMBDA listing :
        listing_matches_subscriber(listing,
            get(merge_fields, "DPR_MIN"), get(merge_fields, "DPR_MAX"),
            subscriber_set(merge_fields, "INDUSTRIES"),
            subscriber_set(merge_fields, "STATES"),
            subscriber_set(merge_fields, "CITIES")))

\* match_subscribers_to_listings raises: some subscriber it does not skip
\* and some listing make a price test raise
match_raises(members, listings) ==
    \E i \in 1..Len(members) :
        LET email == get(members[i], "email_address")
            merge_fields == get(members[i], "merge_fields")
        IN /\ email # <<>>
           /\ merge_fields # <<>>
           /\ \E listing \in Range(listings) :
                 price_raises(listing, get(merge_fields, "DPR_MIN"),
                              get(merge_fields, "DPR_MAX"))

\* d[key] = value on a dict kept as a sequence of entries
dict_put(d, key, value) ==
    IF \E i \in 1..Len(d) : d[i].key = key
    THEN [i \in 1..Len(d) |-> IF d[i].key = key THEN [key |-> key, value |-> value] ELSE d[i]]
    ELSE Append(d, [key |-> key, value |-> value])

\* match_subscribers_to_listings: the dict after the first n subscribers
RECURSIVE match_subscribers_to_listings(_, _, _)
match_subscribers_to_listings(members, listings, n) ==
    IF n = 0 THEN <<>>
    ELSE LET sub == members[n]
             email == get(sub, "email_address")
             merge_fields == get(sub, "merge_fields")
         IN TheOne({ IF email = <<>> THEN done
                     ELSE IF merge_fields = <<>> THEN done
                     ELSE TheOne({ IF matched # <<>>
                                   THEN dict_put(done, email, matched) ELSE done :
                                   matched \in {matched_listings(merge_fields, listings)} }) :
                     done \in {match_subscribers_to_listings(members, listings, n - 1)} })

\* listing.get('url') or listing.get('title', '')
listing_identifier(listing) ==
    IF get(listing, "url") # <<>> THEN get(listing, "url") ELSE get(listing, "title")

\* the string _create_listings_hash digests
hash_content(listings) ==
    join(<<124>>, sorted([i \in 1..Len(listings) |-> listing_identifier(listings[i])]))

\* the characters of the urls of the cycle's candidates
url_chars(u) ==
    CASE u = "u1" -> <<117, 49>>
      [] u = "u2" -> <<117, 50>>
      [] u = "u3" -> <<117, 51>>
      [] OTHER -> <<>>

\* the records of the batch as the dicts notify() reads: of the fields of a
\* record the cycle follows url and listing_id; the members of MemberChoices
\* set no criterion on the others
as_listings(ds) ==
    [i \in DOMAIN ds |-> [url |-> url_chars(ds[i].url), listing_id |-> ds[i].listing_id]]

\* the batches a cycle can hand to notify(): lists of records of its
\* candidates
CycleBatches ==
    UNION { [1..n -> { [url |-> url_chars(c.url), listing_id |-> c.listing_id] :
                       c \in CycleCandidates }] : n \in 1..MaxCandidates }

\* hashlib.md5(content.encode()).hexdigest()[:8] of the contents of these
\* batches, computed once
CycleDigests ==
    { <<content, md5_hexdigest_8(encode(content))>> :
      content \in { hash_content(ls) : ls \in CycleBatches } }

\* hashlib.md5(content.encode()).hexdigest()[:8]
content_digest(content) ==
    IF \E p \in CycleDigests : p[1] = content
    THEN (CHOOSE p \in CycleDigests : p[1] = content)[2]
    ELSE md5_hexdigest_8(encode(content))

\* _create_listings_hash
create_listings_hash(listings) ==
    TheOne({ content_digest(content) : content \in {hash_content(listings)} })

\* a variant that keeps the first subscriber of a group only
group_add_first_only(done, listings_hash, email, matched) ==
    IF \E i \in 1..Len(done) : done[i].key = listings_hash
    THEN done
    ELSE Append(done, [key |-> listings_hash, value |-> <<<<email>>, matched>>])

\* one iteration of the loop of group_subscribers_by_matches
group_add(done, listings_hash, email, matched) ==
    LET created == IF \E i \in 1..Len(done) : done[i].key = listings_hash
                   THEN done
                   ELSE Append(done, [key |-> listings_hash, value |-> <<<<>>, matched>>])
    IN [i \in 1..Len(created) |->
          IF created[i].key = listings_hash
          THEN [key |-> listings_hash,
                value |-> <<Append(created[i].value[1], email), created[i].value[2]>>]
          ELSE created[i]]

\* group_subscribers_by_matches: the dict after the first n entries of matches
RECURSIVE group_subscribers_by_matches(_, _)
group_subscribers_by_matches(ms, n) ==
    IF n = 0 THEN <<>>
    ELSE TheOne({ group_add(done, listings_hash, ms[n].key, ms[n].value) :
                  done \in {group_subscribers_by_matches(ms, n - 1)},
                  listings_hash \in {create_listings_hash(ms[n].value)} })

(***************************************************************************)
(* MailchimpNotifier.notify, step by step, against the Mailchimp account.  *)
(***************************************************************************)
\* the client calls of _send_campaign_to_segment, in order
CampaignCalls == <<"create", "get_content", "remove", "create", "set_content", "send">>

\* a variant that sends the template campaign instead of removing it
campaigns_after_template_sent(segment, n) ==
    (IF n >= 1
     THEN <<[segment |-> segment, status |-> IF n >= 3 THEN "sent" ELSE "draft"]>>
     ELSE <<>>)
    \o (IF n >= 4
        THEN <<[segment |-> segment, status |-> IF n >= 6 THEN "sent" ELSE "draft"]>>
        ELSE <<>>)

\* the campaigns the first n calls of _send_campaign_to_segment leave behind
campaigns_after(segment, n) ==
    (IF n >= 1
     THEN <<[segment |-> segment, status |-> IF n >= 3 THEN "removed" ELSE "draft"]>>
     ELSE <<>>)
    \o (IF n >= 4
        THEN <<[segment |-> segment, status |-> IF n >= 6 THEN "sent" ELSE "draft"]>>
        ELSE <<>>)

\* an exception that is not an ApiClientError leaves notify()
RaiseNotify ==
    /\ notifyPc' = "raised"
    /\ UNCHANGED <<gi, segment_id, emails_sent, groups_processed, summary>>

\* fetch_subscribers: the members, or {"members": []} on ApiClientError; any
\* other exception of get_list_members_info is not caught and leaves notify()
FetchSubscribers ==
    /\ notifyPc = "fetch"
    /\ targets' = targets \cup {[operation |-> "get_list_members_info", list_id |-> self_list_id]}
    /\ UNCHANGED <<list_id, self_list_id>>
    /\ \E outcome \in {"ok", "ApiClientError", "error"} :
          IF outcome = "error"
          THEN /\ RaiseNotify
               /\ UNCHANGED subs
          ELSE /\ subs' = IF outcome = "ok" THEN audience ELSE <<>>
               /\ notifyPc' = "match"
               /\ UNCHANGED <<gi, segment_id, emails_sent, groups_processed, summary>>
    /\ UNCHANGED <<batch, matches, groups, audience, segments, campaigns,
                   dispatch_log>>
    /\ UNCHANGED <<scraperVars, poolVars, threadVars, histVars, mainVars, saveVars,
                   urlVars>>

\* match_subscribers_to_listings and the early return on no match
Match ==
    /\ notifyPc = "match"
    /\ UNCHANGED <<list_id, self_list_id, targets>>
    /\ IF match_raises(subs, batch)
       THEN /\ RaiseNotify
            /\ UNCHANGED matches
       ELSE /\ matches' = match_subscribers_to_listings(subs, batch, Len(subs))
            /\ IF matches' = <<>>
               THEN /\ summary' = Some([matched_subscribers |-> 0, emails_sent |-> 0,
                                        groups_created |-> 0])
                    /\ notifyPc' = "done"
               ELSE /\ notifyPc' = "group"
                    /\ UNCHANGED summary
            /\ UNCHANGED <<gi, segment_id, emails_sent, groups_processed>>
    /\ UNCHANGED <<batch, subs, groups, audience, segments, campaigns, dispatch_log>>
    /\ UNCHANGED <<scraperVars, poolVars, threadVars, histVars, mainVars, saveVars,
                   urlVars>>

\* group_subscribers_by_matches and the counters of the dispatch loop
Group ==
    /\ notifyPc = "group"
    /\ UNCHANGED <<list_id, self_list_id, targets>>
    /\ groups' = group_subscribers_by_matches(matches, Len(matches))
    /\ gi' = 1
    /\ emails_sent' = 0
    /\ groups_processed' = 0
    /\ notifyPc' = "segment"
    /\ UNCHANGED <<batch, subs, matches, segment_id, summary, audience,
                   segments, campaigns, dispatch_log>>
    /\ UNCHANGED <<scraperVars, poolVars, threadVars, histVars, mainVars, saveVars,
                   urlVars>>

\* segment_id = _create_segment_for_group(...) for the next group; the None
\* it returns on ApiClientError (0 here) makes the loop continue
CreateSegment ==
    /\ notifyPc = "segment"
    /\ gi <= Len(groups)
    /\ targets' = targets \cup {[operation |-> "create_segment", list_id |-> self_list_id]}
    /\ UNCHANGED <<list_id, self_list_id>>
    /\ \E outcome \in {"ok", "ApiClientError", "error"} :
          IF outcome = "ok"
          THEN /\ segments' = Append(segments, [name |-> groups[gi].key,
                                                static_segment |-> groups[gi].value[1]])
               /\ segment_id' = Len(segments) + 1
               /\ notifyPc' = "campaign"
               /\ UNCHANGED <<gi, dispatch_log, emails_sent, groups_processed, summary>>
          ELSE /\ dispatch_log' = Append(dispatch_log,
                                         [group |-> gi, segment |-> 0, sent |-> FALSE])
               /\ UNCHANGED segments
               /\ IF outcome = "ApiClientError"
                  THEN /\ gi' = gi + 1
                       /\ segment_id' = 0
                       /\ UNCHANGED <<notifyPc, emails_sent, groups_processed,
                                      summary>>
                  ELSE RaiseNotify
    /\ UNCHANGED <<batch, subs, matches, groups, audience, campaigns>>
    /\ UNCHANGED <<scraperVars, poolVars, threadVars, histVars, mainVars, saveVars,
                   urlVars>>

\* _send_campaign_to_segment for the group whose segment exists: every call
\* can raise; an ApiClientError makes it return False
SendCampaign ==
    /\ notifyPc = "campaign"
    /\ targets' = targets \cup {[operation |-> "campaigns.create", list_id |-> self_list_id]}
    /\ UNCHANGED <<list_id, self_list_id>>
    /\ \E failed \in 0..Len(CampaignCalls), api \in BOOLEAN :
          LET n == IF failed = 0 THEN Len(CampaignCalls) ELSE failed - 1
              group_emails == groups[gi].value[1]
          IN /\ campaigns' = campaigns \o campaigns_after(segment_id, n)
             /\ dispatch_log' = Append(dispatch_log,
                                       [group |-> gi, segment |-> segment_id,
                                        sent |-> (failed = 0)])
             /\ IF failed = 0
                THEN /\ emails_sent' = emails_sent + Len(group_emails)
                     /\ groups_processed' = groups_processed + 1
                     /\ gi' = gi + 1
                     /\ notifyPc' = "segment"
                     /\ UNCHANGED <<segment_id, summary>>
                ELSE IF api
                THEN /\ gi' = gi + 1
                     /\ notifyPc' = "segment"
                     /\ UNCHANGED <<segment_id, emails_sent, groups_processed, summary>>
                ELSE RaiseNotify
    /\ UNCHANGED <<batch, subs, matches, groups, audience, segments>>
    /\ UNCHANGED <<scraperVars, poolVars, threadVars, histVars, mainVars, saveVars,
                   urlVars>>

\* the end of the loop: the summary notify() returns
FinishNotify ==
    /\ notifyPc = "segment"
    /\ gi > Len(groups)
    /\ UNCHANGED <<list_id, self_list_id, targets>>
    /\ summary' = Some([matched_subscribers |-> Len(matches),
                        emails_sent |-> emails_sent,
                        groups_created |-> groups_processed])
    /\ notifyPc' = "done"
    /\ UNCHANGED <<batch, subs, matches, groups, gi, segment_id, emails_sent,
                   groups_processed, audience, segments, campaigns, dispatch_log>>
    /\ UNCHANGED <<scraperVars, poolVars, threadVars, histVars, mainVars, saveVars,
                   urlVars>>

(***************************************************************************)
(* The strings of the model's batches and audiences.                       *)
(***************************************************************************)
\* "https://www.bizbuysell.com/listing/2015765"
url_a ==
    <<104, 116, 116, 112, 115, 58, 47, 47, 119, 119, 119, 46, 98, 105, 122,
      98, 117, 121, 115, 101, 108, 108, 46, 99, 111, 109, 47, 108, 105,
      115, 116, 105, 110, 103, 47, 50, 48, 49, 53, 55, 54, 53>>
\* "https://www.bizbuysell.com/listing/2036716"
url_b ==
    <<104, 116, 116, 112, 115, 58, 47, 47, 119, 119, 119, 46, 98, 105, 122,
      98, 117, 121, 115, 101, 108, 108, 46, 99, 111, 109, 47, 108, 105,
      115, 116, 105, 110, 103, 47, 50, 48, 51, 54, 55, 49, 54>>
\* "Diner"
str_diner ==
    <<68, 105, 110, 101, 114>>
\* "Shop"
str_shop ==
    <<83, 104, 111, 112>>
\* "$250,000"
price_a ==
    <<36, 50, 53, 48, 44, 48, 48, 48>>
\* "$90,000"
price_b ==
    <<36, 57, 48, 44, 48, 48, 48>>
\* "restaurants"
str_restaurants ==
    <<114, 101, 115, 116, 97, 117, 114, 97, 110, 116, 115>>
\* "retail"
str_retail ==
    <<114, 101, 116, 97, 105, 108>>
\* "nevada"
str_nevada ==
    <<110, 101, 118, 97, 100, 97>>
\* "utah"
str_utah ==
    <<117, 116, 97, 104>>
\* "las vegas"
str_las_vegas ==
    <<108, 97, 115, 32, 118, 101, 103, 97, 115>>
\* "provo"
str_provo ==
    <<112, 114, 111, 118, 111>>
\* "Nevada"
str_Nevada ==
    <<78, 101, 118, 97, 100, 97>>
\* "Restaurants"
str_Restaurants ==
    <<82, 101, 115, 116, 97, 117, 114, 97, 110, 116, 115>>
\* "Retail"
str_Retail ==
    <<82, 101, 116, 97, 105, 108>>
\* "Las Vegas"
str_Las_Vegas ==
    <<76, 97, 115, 32, 86, 101, 103, 97, 115>>
\* "nv@fcbb.com"
email_nevada ==
    <<110, 118, 64, 102, 99, 98, 98, 46, 99, 111, 109>>
\* "any@fcbb.com"
email_any ==
    <<97, 110, 121, 64, 102, 99, 98, 98, 46, 99, 111, 109>>
\* "food@fcbb.com"
email_restaurants ==
    <<102, 111, 111, 100, 64, 102, 99, 98, 98, 46, 99, 111, 109>>
\* "shop@fcbb.com"
email_retail ==
    <<115, 104, 111, 112, 64, 102, 99, 98, 98, 46, 99, 111, 109>>
\* "lv@fcbb.com"
email_vegas ==
    <<108, 118, 64, 102, 99, 98, 98, 46, 99, 111, 109>>
\* "new@fcbb.com"
email_unpriced ==
    <<110, 101, 119, 64, 102, 99, 98, 98, 46, 99, 111, 109>>

(***************************************************************************)
(* notify() on its own: a batch of listing details and a Mailchimp list,   *)
(* with the API key and the list id configured.                            *)
(***************************************************************************)
listing_a ==
    [title |-> str_diner, url |-> url_a, asking_price |-> price_a,
     category |-> <<str_restaurants>>, state |-> str_nevada, city |-> str_las_vegas]
listing_b ==
    [title |-> str_shop, url |-> url_b, asking_price |-> price_b,
     category |-> <<str_retail>>, state |-> str_utah, city |-> str_provo]

BatchChoices ==
    { <<>>, <<listing_a>>, <<listing_b>>, <<listing_a, listing_b>>,
      <<listing_b, listing_a>> }

sub_nevada ==
    [email_address |-> email_nevada, merge_fields |-> [STATES |-> str_Nevada]]
sub_any ==
    [email_address |-> email_any,
     merge_fields |-> [INDUSTRIES |-> <<>>, STATES |-> <<>>, CITIES |-> <<>>]]
sub_restaurants ==
    [email_address |-> email_restaurants,
     merge_fields |-> [DPR_MAX |-> Some(300000), INDUSTRIES |-> str_Restaurants]]
sub_retail ==
    [email_address |-> email_retail,
     merge_fields |-> [DPR_MIN |-> Some(50000), INDUSTRIES |-> str_Retail]]
sub_vegas ==
    [email_address |-> email_vegas, merge_fields |-> [CITIES |-> str_Las_Vegas]]
\* a member who left the two number fields empty: the API returns ""
sub_unpriced ==
    [email_address |-> email_unpriced,
     merge_fields |-> [DPR_MIN |-> Str(<<>>), DPR_MAX |-> Str(<<>>),
                       INDUSTRIES |-> str_Retail]]

\* the sub-lists of a list, in its order
RECURSIVE SubLists(_)
SubLists(l) ==
    IF l = <<>> THEN { <<>> }
    ELSE LET rest == SubLists(Tail(l))
         IN rest \cup { <<l[1]>> \o r : r \in rest }

AudienceChoices ==
    SubLists(<<sub_nevada, sub_any, sub_restaurants, sub_retail, sub_vegas,
               sub_unpriced>>)

\* "7881b0503b", the list main() passes to notify_subscribers, or no argument
ListIdArguments == { None, Some("7881b0503b") }
\* what MAILCHIMP_LIST_ID can name: the same list or another one
ConfiguredLists == { Some("7881b0503b"), Some("configured") }

InitNotify ==
    /\ mainPc = "notify"
    /\ store = <<>>
    /\ listing_urls = <<>>
    /\ filtered_urls = <<>>
    /\ pool_result = Zero
    /\ notify_calls = <<>>
    /\ cycle_result = "running"
    /\ cycle = 1
    /\ UrlScraperIdle
    /\ max_concurrent = MainConcurrent
    /\ proxy = NoIdentity
    /\ driver = 0
    /\ sessions = <<>>
    /\ urls_to_process = <<>>
    /\ future = <<>>
    /\ PoolIdle(MainConcurrent)
    /\ notifyPc = "fetch"
    /\ batch \in BatchChoices
    /\ audience \in AudienceChoices
    /\ subs = <<>>
    /\ matches = <<>>
    /\ groups = <<>>
    /\ gi = 0
    /\ segment_id = 0
    /\ emails_sent = 0
    /\ groups_processed = 0
    /\ summary = None
    /\ segments = <<>>
    /\ campaigns = <<>>
    /\ dispatch_log = <<>>
    /\ list_id \in ListIdArguments
    /\ self_list_id \in ConfiguredLists
    /\ targets = {}
    /\ SaveIdle

NextNotify ==
    \/ FetchSubscribers
    \/ Match
    \/ Group
    \/ CreateSegment
    \/ SendCampaign
    \/ FinishNotify

SpecNotify == InitNotify /\ [][NextNotify]_vars

(***************************************************************************)
(* notify_subscribers as main() calls it: one call of notify() from its    *)
(* first line to its return, against the list's members of that moment.    *)
(***************************************************************************)
\* notify() at its first line: MailchimpNotifier(api_key) has read
\* MAILCHIMP_LIST_ID into self.list_id, main() passes list_id="7881b0503b"
notify_entered(listings, members, configured) ==
    [pc |-> "fetch", batch |-> as_listings(listings.items), subs |-> <<>>,
     matches |-> <<>>, groups |-> <<>>, gi |-> 0, segment_id |-> 0,
     emails_sent |-> 0, groups_processed |-> 0, summary |-> None,
     audience |-> members, segments |-> <<>>, campaigns |-> <<>>,
     dispatch_log |-> <<>>, list_id |-> Some("7881b0503b"),
     self_list_id |-> configured, targets |-> {}]

\* what notify() can be at after one more of its calls: fetch_subscribers,
\* match_subscribers_to_listings (which raises when listings is the int of
\* a run without a record and a subscriber is not skipped),
\* group_subscribers_by_matches, _create_segment_for_group,
\* _send_campaign_to_segment, the return of the summary
notify_step(n, listings) ==
    CASE n.pc = "fetch" ->
           LET t == [n EXCEPT !.targets = @ \cup {[operation |-> "get_list_members_info",
                                                    list_id |-> n.self_list_id]}]
           IN { [t EXCEPT !.pc = "raised"],
                [t EXCEPT !.pc = "match"],
                [t EXCEPT !.pc = "match", !.subs = n.audience] }
      [] n.pc = "match" ->
           IF IF listings.is_list THEN match_raises(n.subs, n.batch)
              ELSE iteration_raises(listings, n.subs)
           THEN { [n EXCEPT !.pc = "raised"] }
           ELSE { IF ms = <<>>
                  THEN [n EXCEPT !.pc = "done",
                                 !.summary = Some([matched_subscribers |-> 0,
                                                   emails_sent |-> 0,
                                                   groups_created |-> 0])]
                  ELSE [n EXCEPT !.pc = "group", !.matches = ms] :
                  ms \in { IF listings.is_list
                           THEN match_subscribers_to_listings(n.subs, n.batch, Len(n.subs))
                           ELSE <<>> } }
      [] n.pc = "group" ->
           { [n EXCEPT !.pc = "segment", !.groups = gs, !.gi = 1] :
             gs \in { group_subscribers_by_matches(n.matches, Len(n.matches)) } }
      [] n.pc = "segment" /\ n.gi > Len(n.groups) ->
           { [n EXCEPT !.pc = "done",
                       !.summary = Some([matched_subscribers |-> Len(n.matches),
                                         emails_sent |-> n.emails_sent,
                                         groups_created |-> n.groups_processed])] }
      [] n.pc = "segment" /\ n.gi <= Len(n.groups) ->
           LET t == [n EXCEPT !.targets = @ \cup {[operation |-> "create_segment",
                                                    list_id |-> n.self_list_id]}]
               skipped == [t EXCEPT !.dispatch_log =
                              Append(@, [group |-> n.gi, segment |-> 0, sent |-> FALSE])]
           IN { [t EXCEPT !.pc = "campaign",
                          !.segments = Append(@, [name |-> n.groups[n.gi].key,
                                                  static_segment |-> n.groups[n.gi].value[1]]),
                          !.segment_id = Len(n.segments) + 1],
                [skipped EXCEPT !.gi = @ + 1, !.segment_id = 0],
                [skipped EXCEPT !.pc = "raised"] }
      [] n.pc = "campaign" ->
           LET t == [n EXCEPT !.targets = @ \cup {[operation |-> "campaigns.create",
                                                    list_id |-> n.self_list_id]}]
               after(k, sent) ==
                   [t EXCEPT !.campaigns = @ \o campaigns_after(n.segment_id, k),
                             !.dispatch_log = Append(@, [group |-> n.gi,
                                                         segment |-> n.segment_id,
                                                         sent |-> sent])]
           IN { [after(Len(CampaignCalls), TRUE) EXCEPT
                    !.emails_sent = @ + Len(n.groups[n.gi].value[1]),
                    !.groups_processed = @ + 1, !.gi = @ + 1, !.pc = "segment"] }
              \cup { [after(failed - 1, FALSE) EXCEPT !.gi = @ + 1, !.pc = "segment"] :
                     failed \in 1..Len(CampaignCalls) }
              \cup { [after(failed - 1, FALSE) EXCEPT !.pc = "raised"] :
                     failed \in 1..Len(CampaignCalls) }

RECURSIVE notify_ends(_, _)
\* what a call of notify() that is at n can end in: the summary returned
\* (pc "done") or an exception it lets through (pc "raised")
notify_ends(n, listings) ==
    IF n.pc \in {"done", "raised"} THEN {n}
    ELSE UNION { notify_ends(m, listings) : m \in notify_step(n, listings) }

\* notify_subscribers(listings, list_id="7881b0503b"): MailchimpNotifier(...)
\* raises (int() of a template id that is not set, the split of a key that
\* is not set) and notify() is not entered, or notify() runs to its end
\* against the members the list holds
notify_subscribers(listings, members, configured) ==
    { [notify_entered(ListOf(<<>>), <<>>, None) EXCEPT !.pc = "raised", !.list_id = None] }
    \cup notify_ends(notify_entered(listings, members, configured), listings)

\* ListingDetailScraper.__del__ when main() returns and detail_scraper is
\* released: `if self.driver:` close() and quit() inside try/except-pass;
\* the sessions afterwards
del_scraper ==
    IF driver = 0 THEN {sessions}
    ELSE { IF closeOk THEN teardown(sessions, driver) ELSE sessions :
           closeOk \in (IF Usable(driver) THEN BOOLEAN ELSE {FALSE}) }

\* Step 4 (and the early exit of Step 1.5): notify_subscribers(batch), then
\* main() returns: an exception notify_subscribers lets through makes it
\* return False, and so does the early exit's read of
\* notif['campaign_sent'], a key the summary lacks; the scraper Step 2 built
\* is released on the way out
Notify ==
    /\ mainPc \in {"notify", "stats"}
    /\ LET listings == IF mainPc = "notify" THEN ListOf(<<>>) ELSE pool_result
       IN /\ notify_calls' = Append(notify_calls, listings)
          /\ \E n \in UNION { notify_subscribers(listings, members, configured) :
                               members \in MemberChoices,
                               configured \in ConfiguredLists } :
                /\ notifyPc' = n.pc
                /\ batch' = n.batch
                /\ subs' = n.subs
                /\ matches' = n.matches
                /\ groups' = n.groups
                /\ gi' = n.gi
                /\ segment_id' = n.segment_id
                /\ emails_sent' = n.emails_sent
                /\ groups_processed' = n.groups_processed
                /\ summary' = n.summary
                /\ audience' = n.audience
                /\ segments' = n.segments
                /\ campaigns' = n.campaigns
                /\ dispatch_log' = n.dispatch_log
                /\ list_id' = n.list_id
                /\ self_list_id' = n.self_list_id
                /\ targets' = n.targets
                /\ ReturnMain(IF mainPc = "stats" /\ n.pc = "done"
                              THEN "True" ELSE "False")
    /\ IF mainPc = "stats"
       THEN \E ss \in del_scraper : sessions' = ss
       ELSE UNCHANGED sessions
    /\ UNCHANGED <<max_concurrent, proxy, driver, poolVars, threadVars, histVars,
                   store, listing_urls, filtered_urls, pool_result, saveVars,
                   urlVars, cycle>>

Next ==
    \/ FetchProxyList
    \/ RequestIndexPage
    \/ RetryAfterSleep
    \/ Discover
    \/ Filter
    \/ ScraperInit
    \/ \E w \in Workers : StartTask(w)
    \/ \E w \in Workers : LoopCheck(w)
    \/ \E w \in Workers : Navigate(w)
    \/ \E w \in Workers : CheckDenied(w)
    \/ \E w \in Workers : Extract(w)
    \/ \E w \in Workers : BidCheck(w)
    \/ \E w \in Workers : ResetClose(w)
    \/ \E w \in Workers : ResetQuit(w)
    \/ \E w \in Workers : ResetSetProxy(w)
    \/ \E w \in Workers : ResetCreate(w)
    \/ \E w \in Workers : Complete(w)
    \/ Collect
    \/ FinishPool
    \/ Notify

Spec == Init /\ [][Next]_vars

NextDriver ==
    \/ Next
    \/ NextCycle

SpecDriver == Init /\ [][NextDriver]_vars

\* the process keeps running: a step of the driver or of the call of main()
\* it made that can be taken is taken; the calls to the store, the browser
\* and the services come back or raise
SpecDriverLive == SpecDriver /\ WF_vars(NextDriver)


(***************************************************************************)
(* Properties of the notification engine.                                  *)
(***************************************************************************)
\* notify() has computed matches
Matched ==
    \/ notifyPc \in {"group", "segment", "campaign", "done"}
    \/ notifyPc = "raised" /\ dispatch_log # <<>>
\* notify() has computed groups
Grouped ==
    \/ notifyPc \in {"segment", "campaign"}
    \/ notifyPc = "raised" /\ dispatch_log # <<>>
    \/ notifyPc = "done" /\ matches # <<>>

\* the listings matches holds for an email
matches_of(email) ==
    IF \E i \in 1..Len(matches) : matches[i].key = email
    THEN (CHOOSE e \in Range(matches) : e.key = email).value
    ELSE <<>>

\* C7: for a subscriber that specifies states, a listing passes the state
\* test iff its lower-cased state, as a whole value, is in the subscriber's
\* state set; likewise for cities; so a listing that passes the price and
\* industry tests and whose state and city are in the sets the subscriber
\* specifies is among the subscriber's matches.
C7_LocationComparedAsWholeValue ==
    Matched =>
        \A i \in 1..Len(subs), j \in 1..Len(batch) :
            LET merge_fields == subs[i].merge_fields
                listing == batch[j]
                states == subscriber_set(merge_fields, "STATES")
                cities == subscriber_set(merge_fields, "CITIES")
                in_states == lower(get(listing, "state")) \in states
                in_cities == lower(get(listing, "city")) \in cities
            IN /\ states # {} => (state_condition(listing, states) <=> in_states)
               /\ cities # {} => (city_condition(listing, cities) <=> in_cities)
               /\ ( /\ price_condition(listing, get(merge_fields, "DPR_MIN"),
                                       get(merge_fields, "DPR_MAX"))
                    /\ industry_condition(listing,
                                          subscriber_set(merge_fields, "INDUSTRIES"))
                    /\ states # {} => in_states
                    /\ cities # {} => in_cities )
                  => listing \in Range(matches_of(subs[i].email_address))

\* the campaigns sent to a segment
SentTo(segment) ==
    { c \in 1..Len(campaigns) :
        campaigns[c].segment = segment /\ campaigns[c].status = "sent" }

\* scenario D: one listing in Nevada, a subscriber with states = {nevada}
\* and a subscriber with no constraint
ScenarioD ==
    /\ batch = <<listing_a>>
    /\ subs = <<sub_nevada, sub_any>>

\* C8: in scenario D, when notify returns with every group dispatched, both
\* subscribers are matched to the listing, they form one group, and exactly
\* one campaign was sent, to the one segment, whose members are the two emails.
C8_ScenarioDOneCampaignTwoMembers ==
    (ScenarioD /\ notifyPc = "done" /\ groups_processed = Len(groups)) =>
        /\ matches_of(email_nevada) = <<listing_a>>
        /\ matches_of(email_any) = <<listing_a>>
        /\ Len(groups) = 1
        /\ Range(groups[1].value[1]) = {email_nevada, email_any}
        /\ Len(segments) = 1
        /\ Range(segments[1].static_segment) = {email_nevada, email_any}
        /\ Cardinality(SentTo(1)) = 1
        /\ Cardinality({c \in 1..Len(campaigns) : campaigns[c].status = "sent"}) = 1

\* the identifiers of a matched-listing list, as a set
identifier_set(listings) == { listing_identifier(l) : l \in Range(listings) }
\* the group an email was filed in
group_of(email) ==
    CHOOSE g \in 1..Len(groups) : email \in Range(groups[g].value[1])

\* C9: two matched subscribers whose matched-listing identifier sets are
\* equal are in the same group, under the same key; two whose sets differ
\* are in different groups, under different keys.
C9_GroupKeyDeterminesListingSet ==
    Grouped =>
        \A m1, m2 \in 1..Len(matches) :
            LET g1 == group_of(matches[m1].key)
                g2 == group_of(matches[m2].key)
            IN IF identifier_set(matches[m1].value) = identifier_set(matches[m2].value)
               THEN g1 = g2 /\ groups[g1].key = groups[g2].key
               ELSE g1 # g2 /\ groups[g1].key # groups[g2].key

\* C10 (as amended): the dispatch loop reaches the groups in order, once each;
\* a group whose segment creation and campaign calls all succeeded has
\* exactly one sent campaign, addressed to its segment, whose members are
\* the group's emails; any other group has none; no email is a member of
\* two segments, and every campaign is addressed to a segment of the run.
C10_AtMostOneCampaignPerGroup ==
    /\ \A k \in 1..Len(dispatch_log) :
          LET e == dispatch_log[k]
          IN /\ e.group = k
             /\ e.sent =>
                   /\ e.segment \in 1..Len(segments)
                   /\ Cardinality(SentTo(e.segment)) = 1
                   /\ segments[e.segment].static_segment = groups[k].value[1]
             /\ ~e.sent => (e.segment = 0 \/ SentTo(e.segment) = {})
    /\ notifyPc = "done" /\ matches # <<>> => Len(dispatch_log) = Len(groups)
    /\ \A s1, s2 \in 1..Len(segments) :
          s1 # s2 => Range(segments[s1].static_segment)
                       \cap Range(segments[s2].static_segment) = {}
    /\ \A c \in 1..Len(campaigns) : campaigns[c].segment \in 1..Len(segments)
    /\ \A s \in 1..Len(segments) : Cardinality(SentTo(s)) <= 1

\* notify returned after two groups, one dispatched and one skipped
C10_Witness ==
    /\ notifyPc = "done"
    /\ Len(groups) = 2
    /\ \E k1, k2 \in 1..Len(dispatch_log) :
          /\ dispatch_log[k1].sent
          /\ ~dispatch_log[k2].sent

\* C10 as stated: when notify returns, every group has exactly one sent
\* campaign, addressed to a segment whose members are the group's emails.
C10_ExactlyOneCampaignPerGroup ==
    (notifyPc = "done" /\ matches # <<>>) =>
        \A g \in 1..Len(groups) :
            \E s \in 1..Len(segments) :
                /\ segments[s].static_segment = groups[g].value[1]
                /\ Cardinality(SentTo(s)) = 1

(***************************************************************************)
(* Error handling of the dispatch loop.                                    *)
(***************************************************************************)
\* the groups the dispatch loop has reached
Reached == { dispatch_log[k].group : k \in 1..Len(dispatch_log) }

\* C11: a failed campaign-platform operation of one group is confined to
\* that group: notify does not abort, every group is reached by the time
\* notify ends, and only the dispatched groups are in the success counts.
C11_GroupFailureConfined ==
    /\ ~(notifyPc = "raised" /\ dispatch_log # <<>>)
    /\ (notifyPc = "done" /\ matches # <<>>) => Reached = 1..Len(groups)
    /\ groups_processed
         = Cardinality({k \in 1..Len(dispatch_log) : dispatch_log[k].sent})

(***************************************************************************)
(* Persistence and the notification batch.                                 *)
(***************************************************************************)
\* the records handed to notify_subscribers so far
Notified ==
    UNION { Range(notify_calls[i].items) : i \in 1..Len(notify_calls) }

\* C12: a failed batch write ends the cycle in failure before the
\* notification engine is invoked: every record handed to the notification
\* engine is a document of the store, and a cycle that ends in success has
\* persisted every record of its batch.
C12_FailedWriteEndsRun ==
    /\ Notified \subseteq Range(store)
    /\ cycle_result = "True" => Range(pool_result.items) \subseteq Range(store)

(***************************************************************************)
(* _save_details_to_mongo on its own: a scraper is handed lists of         *)
(* extracted records, in two runs.                                         *)
(***************************************************************************)
MaxBatch == 2
MaxClock == 2
MaxRuns == 2

\* the records a run can extract from its two candidates, one with a
\* listing_id and one without: url comes from the candidate, listing_id
\* from the productId of the page the shared session shows at the
\* extraction (the candidate's own page, or the one another thread has
\* loaded since) when it has one, else from the candidate; scraped_date is
\* the moment of the extraction, later in a later run; the threads of the
\* pool finish in any order while all_details keeps the order of submission
RunRecords(run) ==
    LET candidates == { [url |-> "u1", listing_id |-> "L1"],
                        [url |-> "u3", listing_id |-> ""] }
    IN  { [url |-> url_data.url,
           listing_id |-> IF page_of.listing_id # "" THEN page_of.listing_id
                          ELSE url_data.listing_id,
           scraped_date |-> (run - 1) * MaxClock + t] :
             url_data \in candidates, page_of \in candidates,
             t \in 1..MaxClock }

RunBatches(run) == UNION { [1..n -> RunRecords(run)] : n \in 1..MaxBatch }

\* what an earlier cycle can have left in the collection
SavedChoices ==
    { <<>>, << [url |-> "u1-old", listing_id |-> "L1", scraped_date |-> 0] >> }

SaveDetails ==
    /\ savePc = "save"
    /\ \E r \in save_details_to_mongo(store, details) :
          /\ store' = r.store
          /\ new_count' = r.count
          /\ writes' = writes \o r.applied
    /\ savePc' = "saved"
    /\ UNCHANGED <<details, save_run>>
    /\ UNCHANGED <<scraperVars, poolVars, threadVars, histVars, notifyVars,
                   urlVars>>
    /\ UNCHANGED <<mainPc, listing_urls, filtered_urls, pool_result,
                   notify_calls, cycle_result, cycle>>

\* the next run hands over its list
NextRun ==
    /\ savePc = "saved"
    /\ save_run < MaxRuns
    /\ save_run' = save_run + 1
    /\ details' \in RunBatches(save_run')
    /\ savePc' = "save"
    /\ UNCHANGED <<new_count, writes>>
    /\ UNCHANGED <<scraperVars, poolVars, threadVars, histVars, mainVars,
                   notifyVars, urlVars>>

InitStore ==
    /\ mainPc = "save"
    /\ store \in SavedChoices
    /\ listing_urls = <<>>
    /\ filtered_urls = <<>>
    /\ pool_result = Zero
    /\ notify_calls = <<>>
    /\ cycle_result = "running"
    /\ cycle = 1
    /\ UrlScraperIdle
    /\ NotifierIdle
    /\ max_concurrent = PoolWorkers
    /\ proxy = Identity(1)
    /\ driver = 1
    /\ sessions = <<NewSession>>
    /\ urls_to_process = <<>>
    /\ future = <<>>
    /\ PoolIdle(PoolWorkers)
    /\ savePc = "save"
    /\ save_run = 1
    /\ details \in RunBatches(1)
    /\ new_count = 0
    /\ writes = <<>>

NextStore ==
    \/ SaveDetails
    \/ NextRun

SpecStore == InitStore /\ [][NextStore]_vars

\* the writes made so far under the key of record r
WritesOf(r) == { w \in Range(writes) : Key(w) = Key(r) }
\* the stored documents under the key of record r
StoredOf(r) == { i \in DOMAIN store : Key(store[i]) = Key(r) }

\* C13: when a save has returned, every key written so far has exactly one
\* stored document (a repeated write modifies, it adds no document), and
\* that document carries the fields of the write with the latest
\* scraped_date among the writes of that key.
C13_UpsertKeepsLatest ==
    savePc = "saved" =>
        \A r \in Range(writes) :
            /\ Cardinality(StoredOf(r)) = 1
            /\ \A i \in StoredOf(r) :
                  /\ store[i] \in WritesOf(r)
                  /\ \A w \in WritesOf(r) : w.scraped_date <= store[i].scraped_date

(***************************************************************************)
(* Enrichment and the acceptance rule.                                     *)
(***************************************************************************)
\* thread w has just had an extraction fail on the page of its own
\* candidate
ExtractionFailed(w) ==
    /\ wpc[w] = "bid"
    /\ Usable(driver)
    /\ sessions[driver].cand = task[w]

\* C14: no outcome of the two classification calls loses the record: an
\* extraction fails only on a page that lacks the asking price or the
\* location, never on one that shows both.
C14_EnrichmentNeverLosesRecord ==
    \A w \in Workers :
        ExtractionFailed(w) =>
            ~acceptance_rule(sessions[driver].kind)

\* d is a record some task returned
IsReturned(d) == \E j \in DOMAIN future : future[j].detail = Some(d)
\* the documents earlier cycles can have left in the collection
EarlierDocs == UNION { Range(st) : st \in StoreChoices }

\* C15: a task returns a record only from an accepted extraction, every
\* accepted extraction was made on a page showing a non-empty asking price
\* and a non-empty location, and all_details, the list the pool returns,
\* the documents written and the lists handed to the notification engine
\* hold records returned by tasks only.
C15_AcceptedHasPriceAndLocation ==
    /\ \A e \in accepted_from :
          asking_price_of(e[2]) # "" /\ location_of(e[2]) # ""
    /\ \A i \in DOMAIN future :
          future[i].detail # None => \E e \in accepted_from : e[1] = i
    /\ \A w \in Workers :
          retval[w] # None => \E e \in accepted_from : e[1] = task[w]
    /\ \A i \in DOMAIN all_details : IsReturned(all_details[i])
    /\ \A i \in DOMAIN pool_result.items : IsReturned(pool_result.items[i])
    /\ \A c \in DOMAIN notify_calls :
          \A i \in DOMAIN notify_calls[c].items : IsReturned(notify_calls[c].items[i])
    /\ \A i \in DOMAIN store : IsReturned(store[i]) \/ store[i] \in EarlierDocs

\* a cycle of two candidates has ended: one was rejected, the other was
\* accepted, written and handed to the notification engine
C15_Witness ==
    /\ mainPc = "done"
    /\ Len(urls_to_process) = 2
    /\ failed_count = 1
    /\ Cardinality(accepted_from) = 1
    /\ Notified # {}
    /\ Notified \subseteq Range(store)

(***************************************************************************)
(* The attempt sequence of one candidate.                                  *)
(***************************************************************************)
\* thread w leaves the "starting bid" lookup on a page that carries the
\* auction marker
LeavesAuctionLookup(w) ==
    /\ wpc[w] = "bid"
    /\ wpc'[w] # "bid"
    /\ Usable(driver)
    /\ sessions[driver].kind = "auction"

\* C16: a failed extraction on a page with the auction marker ends the
\* candidate's attempts at once: the method returns the absent record, the
\* session is neither torn down nor replaced, and the thread neither
\* resets nor navigates.
C16_AuctionEndsAttempts ==
    [][\A w \in Workers :
          LeavesAuctionLookup(w) =>
              /\ wpc'[w] = "return"
              /\ retval'[w] = None
              /\ driver' = driver
              /\ sessions' = sessions
              /\ navs'[w] = navs[w]
              /\ resetAt'[w] = resetAt[w]]_vars

\* a candidate's first attempt ended on an auction page: None is returned
\* after one navigation and no reset
C16_Witness ==
    \E w \in Workers :
        /\ wpc[w] = "return"
        /\ retval[w] = None
        /\ trials[w] = 1
        /\ navs[w] = 1
        /\ resetAt[w] = {}
        /\ Usable(driver)
        /\ sessions[driver].cand = task[w]
        /\ sessions[driver].kind = "auction"

\* thread w returns a record from its second attempt, the first having
\* ended in a reset on the access-denied page
DeniedThenExtracted(w) ==
    /\ wpc[w] = "return"
    /\ retval[w] # None
    /\ resetAt[w] = {1}
    /\ lastReset[w].happened
    /\ lastReset[w].denied

\* C17: access denied on attempt 1 and a successful attempt 2 mean one
\* reset of the session, the old session torn down and a new one created,
\* two navigations, and the record returned.
C17_OneResetAfterDenied ==
    \A w \in Workers :
        DeniedThenExtracted(w) =>
            /\ navs[w] = 2
            /\ ~lastReset[w].closeRaised
            /\ lastReset[w].created
            /\ driver # lastReset[w].before
            /\ ~sessions[lastReset[w].before].live

(***************************************************************************)
(* Session acquisition.                                                    *)
(***************************************************************************)
\* C18: a failed proxy fetch is an error of the acquisition, so no session
\* is ever created while the identity is the empty one of __init__, and a
\* reset creates its session only after re-selecting the identity.
C18_NoSessionWithoutFreshProxy ==
    /\ sessions # <<>> => proxy # NoIdentity
    /\ \A w \in Workers :
          (lastReset[w].happened /\ lastReset[w].created) => lastReset[w].reselected

(***************************************************************************)
(* Failure of the freshness filter.                                        *)
(***************************************************************************)
\* C19: the step of the freshness filter either applies the filter to what
\* the store holds, or (the lookup failed) ends the cycle in failure with
\* no session created, no navigation, no write and no notification; a
\* cycle that has ended takes no further step.
C19_FilterFailureEndsCycle ==
    [][/\ mainPc = "filter" =>
            \/ /\ mainPc' \in {"init", "notify"}
               /\ filtered_urls' = freshness_filter(store, listing_urls)
            \/ /\ mainPc' = "done"
               /\ cycle_result' = "False"
               /\ sessions' = <<>>
               /\ driver' = 0
               /\ nextTask' = 0
               /\ \A w \in Workers : navs'[w] = 0
               /\ store' = store
               /\ notify_calls' = <<>>
               /\ campaigns' = <<>>
       /\ mainPc = "done" => FALSE]_vars

\* the cycle has ended at the filter: candidates were discovered, main()
\* returned False, and nothing was created, written or notified
C19_Witness ==
    /\ mainPc = "done"
    /\ cycle_result = "False"
    /\ listing_urls # <<>>
    /\ sessions = <<>>
    /\ notify_calls = <<>>

(***************************************************************************)
(* Price matching.                                                         *)
(***************************************************************************)
\* a bound that is present: the merge field has a value and it is not empty
bound_present(bound) == bound # None /\ bound # Str(<<>>)

\* the listing is outside the bounds that are present (bounds inclusive)
PriceRejects(listing, min_price, max_price) ==
    LET price == normalize_price(get(listing, "asking_price"))
    IN /\ price # None
       /\ \/ bound_present(min_price) /\ price[1] < min_price[1]
          \/ bound_present(max_price) /\ price[1] > max_price[1]

\* the listing is among the matches of subscriber sub exactly when the
\* price does not reject it and the other tests pass
PriceDecides(sub, listing) ==
    LET merge_fields == sub.merge_fields
    IN listing \in Range(matches_of(sub.email_address)) <=>
          /\ ~PriceRejects(listing, get(merge_fields, "DPR_MIN"),
                           get(merge_fields, "DPR_MAX"))
          /\ industry_condition(listing, subscriber_set(merge_fields, "INDUSTRIES"))
          /\ state_condition(listing, subscriber_set(merge_fields, "STATES"))
          /\ city_condition(listing, subscriber_set(merge_fields, "CITIES"))

\* every subscriber's matches were decided by the price rule
PriceDecidesAll ==
    \A i \in 1..Len(subs) : \A listing \in Range(batch) :
        PriceDecides(subs[i], listing)

\* C20: the matching run never aborts, and a listing is rejected on price
\* iff its price and the bound are both present and the price is below the
\* minimum or above the maximum; a missing, unparseable or empty value is
\* no constraint.
C20_PriceWithinBounds ==
    /\ ~(notifyPc = "raised" /\ dispatch_log = <<>>)
    /\ Matched => PriceDecidesAll

(***************************************************************************)
(* Matching as a function of the subscriber profile.                       *)
(***************************************************************************)
\* the merge fields a member of the list can carry: a number field holds a
\* number, or "" when the member left it empty, or is not defined for the
\* list; a text field holds a text or ""
ProfileChoices ==
    [DPR_MIN : {None, Str(<<>>), Some(50000)},
     DPR_MAX : {Str(<<>>), Some(300000)},
     INDUSTRIES : {<<>>, str_Retail},
     STATES : {<<>>, str_Nevada},
     CITIES : {<<>>, str_Las_Vegas}]

\* what match_subscribers_to_listings leaves the one member with: the
\* listings under the member's email, nothing when the call raises
match_set(merge_fields, listings) ==
    LET sub == [email_address |-> email_any, merge_fields |-> merge_fields]
    IN IF match_raises(<<sub>>, listings) THEN {}
       ELSE LET found == match_subscribers_to_listings(<<sub>>, listings, 1)
            IN IF found = <<>> THEN {} ELSE Range(found[1].value)

\* the profile constrains the price on that side
HasBound(merge_fields, name) == bound_present(get(merge_fields, name))
\* the profile restricts that dimension
Restricts(merge_fields, name) == subscriber_set(merge_fields, name) # {}

\* profile q is profile p with constraints added: what p constrains q
\* constrains by the same value
AddsConstraints(p, q) ==
    /\ \A name \in {"DPR_MIN", "DPR_MAX"} :
          HasBound(p, name) => get(q, name) = get(p, name)
    /\ \A name \in {"INDUSTRIES", "STATES", "CITIES"} :
          Restricts(p, name) => get(q, name) = get(p, name)

\* the pairs <<p, q>> of profiles where q adds one constraint or more to p
ConstraintSteps ==
    { pq \in ProfileChoices \X ProfileChoices :
        pq[1] # pq[2] /\ AddsConstraints(pq[1], pq[2]) }

\* match_subscribers_to_listings has run on the batch
MatchingRan ==
    \/ notifyPc = "group"
    \/ notifyPc = "raised" /\ dispatch_log = <<>>

\* C21: for the batch matched, a profile with a constraint added matches
\* no listing the profile without it does not match (and so a profile with
\* a constraint removed loses no listing).
C21_MatchingMonotonic ==
    MatchingRan =>
        \A pq \in ConstraintSteps :
            match_set(pq[2], batch) \subseteq match_set(pq[1], batch)

(***************************************************************************)
(* The industry condition.                                                 *)
(***************************************************************************)
\* INDUSTRIES values of a member: "Restaurants", " retail ,RESTAURANTS",
\* "Retail,<NBSP>Restaurants", "Food", ""
IndustryFields ==
    { str_Restaurants,
      <<32, 114, 101, 116, 97, 105, 108, 32, 44, 82, 69, 83, 84, 65, 85, 82, 65, 78, 84, 83>>,
      <<82, 101, 116, 97, 105, 108, 44, 160, 82, 101, 115, 116, 97, 117, 114, 97, 110, 116, 115>>,
      <<70, 111, 111, 100>>,
      <<>> }

\* category lists of a listing: none, ["restaurants"], [" Retail "], [""],
\* ["retail", "food trucks"], ["Restaurants"]
CategoryLists ==
    { <<>>,
      <<str_restaurants>>,
      << <<32, 82, 101, 116, 97, 105, 108, 32>> >>,
      << <<>> >>,
      <<str_retail, <<102, 111, 111, 100, 32, 116, 114, 117, 99, 107, 115>> >>,
      <<str_Restaurants>> }

\* the two texts are equal ignoring case and surrounding whitespace
SameIgnoringCase(a, b) == lower(strip(a)) = lower(strip(b))

\* one of the categories equals one of the industries the comma-separated
\* field names
SharesIndustry(field, cats) ==
    \E item \in Range(split(field, 44)) : \E c \in Range(cats) :
        /\ strip(item) # <<>>
        /\ SameIgnoringCase(item, c)

\* the listing passes the other three tests of the member
OtherConditions(merge_fields, listing) ==
    /\ price_condition(listing, get(merge_fields, "DPR_MIN"), get(merge_fields, "DPR_MAX"))
    /\ state_condition(listing, subscriber_set(merge_fields, "STATES"))
    /\ city_condition(listing, subscriber_set(merge_fields, "CITIES"))

RecordsIn(order) ==
    LET with_record == SelectSeq(order, LAMBDA i : i <= collected /\ future[i].detail # None)
    IN [k \in 1..Len(with_record) |-> future[with_record[k]].detail[1]]

\* the tasks in the order they were submitted
submission == [i \in 1..Len(urls_to_process) |-> i]

\* C23 (as amended): the batch lists the records in the order in which
\* their candidates were submitted, whatever the order in which they
\* completed, and that list is what the pool returns.
C23_BatchInSubmissionOrder ==
    /\ all_details = RecordsIn(submission)
    /\ pool_result.is_list => pool_result.items = all_details

\* two candidates completed in the reverse of the order they were
\* submitted in, both with a record, and the pool has returned the batch
C23_Witness ==
    /\ completion = <<2, 1>>
    /\ pool_result.is_list
    /\ Len(pool_result.items) = 2
    /\ pool_result.items[1] # pool_result.items[2]
    /\ pool_result.items = <<future[1].detail[1], future[2].detail[1]>>

\* C23 (as stated): the batch returned by the pool lists the records in the
\* order in which their candidates completed, not in the order in which
\* they were submitted.
C23_BatchInCompletionOrder ==
    pool_result.is_list => pool_result.items = RecordsIn(completion)

(***************************************************************************)
(* The one write of a run.                                                 *)
(***************************************************************************)
\* no two documents of the collection have the same key
KeysUnique(st) ==
    \A j \in DOMAIN st : \A k \in DOMAIN st : Key(st[j]) = Key(st[k]) => j = k

\* st2 is st after a bulk upsert of the records ds by key, of which the
\* server applied all or (the call raised) some: every document added or
\* changed is a record of ds under its key, no key has two documents, no
\* stored key is lost and no other document is touched
UpsertedByKey(st, st2, ds) ==
    /\ StoredKeys(st) \subseteq StoredKeys(st2)
    /\ StoredKeys(st2) \subseteq StoredKeys(st) \cup { Key(d) : d \in Range(ds) }
    /\ KeysUnique(st) => KeysUnique(st2)
    /\ \A j \in DOMAIN st2 :
          \/ j \in DOMAIN st /\ st2[j] = st[j]
          \/ \E d \in Range(ds) :
                /\ Key(d) = Key(st2[j])
                /\ \A k \in DOMAIN d : st2[j][k] = d[k]

\* every candidate of the run has reached its outcome, and all_details
\* holds every record produced
AllTerminal ==
    /\ \A i \in DOMAIN future : future[i].state = "done"
    /\ \A w \in Workers : wpc[w] = "idle"
    /\ collected = Len(urls_to_process)
    /\ all_details = RecordsIn(submission)

\* C24: the store changes in one step of a run only, the bulk upsert handed
\* every record the run produced (applied in full, or in part when the call
\* raises), keyed by listing_id if present and else by url; that step is
\* taken when every candidate has reached its outcome
\* and before the notification engine is called; the freshness filter has
\* read the store before it, and no later step writes.
C24_OneWriteAfterAcquisition ==
    [][store' # store =>
          /\ mainPc = "pool" /\ mainPc' = "stats"
          /\ AllTerminal
          /\ UpsertedByKey(store, store', all_details)
          /\ pool_result' = ListOf(all_details)
          /\ filtered_urls = freshness_filter(store, listing_urls)
          /\ notify_calls = <<>>]_vars

\* the write of a run of two candidates has been made: the collection
\* holds one document for each of the two records and no other, and the
\* notification engine has not been called yet
C24_Witness ==
    /\ mainPc = "stats"
    /\ Len(all_details) = 2
    /\ Len(store) = 2
    /\ Range(all_details) = Range(store)
    /\ \E d \in Range(store) : d.listing_id = "L1" /\ d.url = "u1"
    /\ \E d \in Range(store) : d.listing_id = "L2"
    /\ notify_calls = <<>>

(***************************************************************************)
(* When a session is created.                                              *)
(***************************************************************************)
\* thread w takes a step of the reset_driver call at the end of an attempt
\* that gave no record, the only reset of that attempt: a step that leaves
\* reset_driver ends the attempt
ResetsAfterFailedAttempt(w) ==
    /\ wpc[w] \in ResetStages
    /\ retval[w] = None
    /\ ~\E e \in accepted_from : e[1] = task[w]
    /\ trials[w] \notin resetAt[w]
    /\ \/ /\ wpc'[w] = "loop"
          /\ resetAt'[w] = resetAt[w] \cup {trials[w]}
          /\ trials'[w] = trials[w] + 1
       \/ /\ wpc'[w] \in ResetStages \ {"reset"}
          /\ resetAt'[w] = resetAt[w]
          /\ trials'[w] = trials[w]

\* C25: a step creates at most one session, and a session is created only
\* by the scraper's start-up, the first of the run, or by the one reset
\* that ends a failed attempt (so the creations of a run number at most 1
\* plus its failed attempts); a thread that has a record to return makes no
\* reset and no further attempt.
C25_SessionOnlyAfterFailure ==
    [][/\ Len(sessions') <= Len(sessions) + 1
       /\ Len(sessions') > Len(sessions) =>
             \/ mainPc = "init" /\ sessions = <<>>
             \/ \E w \in Workers : ResetsAfterFailedAttempt(w) /\ wpc'[w] = "loop"
       /\ \A w \in Workers :
             (lastReset'[w] # lastReset[w] /\ lastReset'[w].happened)
                 => ResetsAfterFailedAttempt(w)
       /\ \A w \in Workers :
             (wpc[w] = "return" /\ retval[w] # None) =>
                 /\ wpc'[w] \in {"return", "idle"}
                 /\ navs'[w] \in {navs[w], 0}
                 /\ resetAt'[w] \in {resetAt[w], {}}]_vars

\* the second attempt of a candidate returns a record on the session that
\* the reset after the failed first attempt created, the second session of
\* the run
C25_Witness ==
    \E w \in Workers :
        /\ wpc[w] = "return"
        /\ retval[w] # None
        /\ resetAt[w] = {1}
        /\ lastReset[w].happened /\ lastReset[w].created
        /\ Len(sessions) = 2
        /\ driver = 2

(***************************************************************************)
(* categorize_listing.                                                     *)
(***************************************************************************)
\* the original categories a page can carry in its JSON-LD
RawCategories == {"", "Eateries", "Retail"}

\* the tags an answer names: the items of the array, or the keys of the
\* object, under "category" of a JSON object
NamedTags(answer) ==
    IF /\ answer.outcome = "object"
       /\ answer.has_category
       /\ answer.category.type \in {"list", "dict"}
    THEN answer.category.items
    ELSE <<>>

\* the answer names at least one predefined category
NamesValidTag(answer) ==
    \E i \in DOMAIN NamedTags(answer) : NamedTags(answer)[i] \in categories

\* C26: whatever the service answers, categorize_listing returns a list and
\* does not raise; when the answer names a predefined category (as an item
\* of the array, or as a key of the object, it holds under "category") the
\* list holds exactly the predefined categories the answer names, in its
\* order, and nothing outside the vocabulary; in every other case (no valid
\* tag, a string, null or a number for the array, no "category", a JSON
\* value that is no object, malformed text, a failed call) it is the list
\* of the raw original category alone, empty when that string is empty.
C26_CategoriesFromVocabulary ==
    (\E w \in Workers : wpc[w] = "return" /\ retval[w] # None) =>
        \A category \in RawCategories : \A answer \in CategoryAnswers :
            LET r == categorize_listing(category, answer)
            IN /\ r.type = "list"
               /\ IF NamesValidTag(answer)
                  THEN /\ \A i \in DOMAIN r.items : r.items[i] \in categories
                       /\ r.items = SelectSeq(NamedTags(answer),
                                              LAMBDA tag : tag \in categories)
                       /\ ~r.fallback
                  ELSE /\ r.items = IF category = "" THEN <<>> ELSE <<category>>
                       /\ r.fallback

\* an accepted page has been enriched and its record is being returned
C26_Witness ==
    \E w \in Workers :
        /\ wpc[w] = "return"
        /\ retval[w] # None
        /\ \E e \in accepted_from : e[1] = task[w] /\ e[2] = "full"

(***************************************************************************)
(* The periodic driver.                                                    *)
(***************************************************************************)
\* the stage main() can go to from each stage: discovery, freshness filter,
\* acquisition ("init", "pool"), persistence (the step out of "pool"),
\* notification (the step out of "stats" or "notify"); "done" is main()
\* having returned, after which the driver calls it again
StageOrder ==
    { <<"discover", "filter">>, <<"discover", "done">>,
      <<"filter", "init">>, <<"filter", "notify">>, <<"filter", "done">>,
      <<"init", "pool">>, <<"init", "done">>, <<"pool", "stats">>,
      <<"stats", "done">>, <<"notify", "done">>,
      <<"done", "discover">> }

\* the steps of a cycle keep the order of the stages; the store is written
\* by the step that ends the acquisition only, the notification engine is
\* called after it only; a new cycle is the next call of main()
StagesInOrder ==
    [][/\ mainPc' # mainPc => <<mainPc, mainPc'>> \in StageOrder
       /\ store' # store => mainPc = "pool" /\ mainPc' = "stats"
       /\ Len(notify_calls') > Len(notify_calls) =>
             mainPc \in {"stats", "notify"} /\ mainPc' = "done"
       /\ cycle' # cycle =>
             mainPc = "done" /\ mainPc' = "discover" /\ cycle' = cycle + 1]_vars

\* C27: each cycle runs its stages in the order discovery, freshness
\* filter, acquisition, persistence, notification; from every state of a
\* cycle, whatever stage it is in and whether that stage fails or not,
\* main() returns and the driver starts the next cycle.
C27_DriverSurvivesFailure ==
    /\ StagesInOrder
    /\ \A c \in 1..(MaxCycles - 1) :
          (cycle = c) ~> (cycle = c + 1 /\ mainPc = "discover")

\* the second cycle has run as far as the freshness filter and ended in
\* failure there
C27_Witness ==
    /\ cycle = 2
    /\ mainPc = "done"
    /\ cycle_result = "False"
    /\ listing_urls # <<>>
    /\ filtered_urls = <<>>
    /\ notify_calls = <<>>

(***************************************************************************)
(* The summary of notify().                                                *)
(***************************************************************************)
\* the subscribers the matching loop keeps: an email, merge fields, and at
\* least one listing of the batch matched
SubscribersWithMatch ==
    { i \in 1..Len(subs) :
        /\ get(subs[i], "email_address") # <<>>
        /\ get(subs[i], "merge_fields") # <<>>
        /\ matched_listings(get(subs[i], "merge_fields"), batch) # <<>> }

\* the groups whose campaign was sent
SentGroups == { dispatch_log[k].group : k \in { j \in 1..Len(dispatch_log) : dispatch_log[j].sent } }

\* the total size of the first n groups among those sent
RECURSIVE SentSize(_)
SentSize(n) ==
    IF n = 0 THEN 0
    ELSE SentSize(n - 1) + (IF n \in SentGroups THEN Len(groups[n].value[1]) ELSE 0)

\* C28: the summary notify() returns counts the subscribers with at least
\* one matched listing, the total size of the groups whose campaign was sent
\* and the number of those groups; emails_sent <= matched_subscribers with
\* equality exactly when every group was sent; all three are 0 when nothing
\* matches.
C28_SummaryCounts ==
    (notifyPc = "done" /\ summary # None) =>
        LET s == summary[1]
        IN /\ s.matched_subscribers = Cardinality(SubscribersWithMatch)
           /\ s.emails_sent = SentSize(Len(groups))
           /\ s.groups_created = Cardinality(SentGroups)
           /\ s.emails_sent <= s.matched_subscribers
           /\ (s.emails_sent = s.matched_subscribers) <=> (SentGroups = 1..Len(groups))
           /\ SubscribersWithMatch = {} =>
                 s.matched_subscribers = 0 /\ s.emails_sent = 0 /\ s.groups_created = 0

\* notify() returned after a loop over two groups, one of two subscribers that
\* was sent and one that was not
C28_Witness ==
    /\ notifyPc = "done"
    /\ summary # None
    /\ Len(groups) = 2
    /\ \E g \in SentGroups : Len(groups[g].value[1]) = 2
    /\ SentGroups # 1..Len(groups)
    /\ summary[1].emails_sent = 2
    /\ summary[1].matched_subscribers > 2

\* notify() returned early: nothing matched a non-empty audience
C28_WitnessNoMatch ==
    /\ notifyPc = "done"
    /\ summary # None
    /\ subs # <<>>
    /\ batch # <<>>
    /\ SubscribersWithMatch = {}

\* C29: a task whose candidate has a non-empty url does not leave
\* _scrape_listing_detail_selenium without a record before it has navigated
\* to the url at least once, whatever happened to the session before.
C29_NavigatedBeforeFailed ==
    \A w \in Workers :
        (/\ wpc[w] = "return"
         /\ retval[w] = None
         /\ urls_to_process[task[w]].url # "") => navs[w] > 0

\* C30: when the acquisition ends without a record, the notification that
\* follows completes and main() returns True, whoever is subscribed, unless
\* one of the notifier's services fails.
C30_NoRecordStillSucceeds ==
    (mainPc = "done" /\ notify_calls = <<Zero>> /\ subs # <<>>) =>
        /\ cycle_result = "True"
        /\ summary = Some([matched_subscribers |-> 0, emails_sent |-> 0,
                           groups_created |-> 0])

(***************************************************************************)
(* The early exit of main().                                               *)
(***************************************************************************)
\* C31: a cycle whose freshness filter left no new candidate ends with no
\* session created, the notification engine called once with an empty batch,
\* and main() returning True.
C31_NothingNewStillSucceeds ==
    (/\ mainPc = "done"
     /\ listing_urls # <<>>
     /\ filtered_urls = <<>>
     /\ notify_calls # <<>>) =>
        /\ sessions = <<>>
        /\ notify_calls = <<ListOf(<<>>)>>
        /\ cycle_result = "True"

\* the part of C31 that does hold: no session, one call with an empty
\* batch, no segment and no campaign
C31_NothingNewNoSession ==
    (/\ mainPc = "done"
     /\ listing_urls # <<>>
     /\ filtered_urls = <<>>
     /\ notify_calls # <<>>) =>
        /\ sessions = <<>>
        /\ notify_calls = <<ListOf(<<>>)>>
        /\ segments = <<>>
        /\ campaigns = <<>>

(***************************************************************************)
(* The subscriber without a constraint.                                    *)
(***************************************************************************)
\* the merge fields of a member who specifies nothing: text fields left
\* empty and the number fields absent
unconstrained_fields == [INDUSTRIES |-> <<>>, STATES |-> <<>>, CITIES |-> <<>>]
\* the same with the number fields as the API returns them when empty: ""
unconstrained_empty_numbers ==
    [DPR_MIN |-> Str(<<>>), DPR_MAX |-> Str(<<>>),
     INDUSTRIES |-> <<>>, STATES |-> <<>>, CITIES |-> <<>>]
\* the profiles without a constraint; <<>> is a member whose merge_fields
\* is {}
NoConstraintProfiles == { <<>>, unconstrained_fields, unconstrained_empty_numbers }

\* C32: for a non-empty batch, a subscriber whose profile has no price
\* bound, no industries, no states and no cities is matched with every
\* listing of the batch.
C32_UnconstrainedMatchesAll ==
    (MatchingRan /\ batch # <<>>) =>
        \A p \in NoConstraintProfiles : match_set(p, batch) = Range(batch)

\* what holds of C32: with the number fields absent and the merge fields
\* not empty, every listing of the batch is matched
C32_AbsentBoundsMatchAll ==
    (MatchingRan /\ batch # <<>>) =>
        match_set(unconstrained_fields, batch) = Range(batch)

\* a member whose merge_fields is {} is skipped by the matching loop
C32_EmptyFieldsSkipped ==
    (MatchingRan /\ batch # <<>>) => match_set(<<>>, batch) = {}

(***************************************************************************)
(* Candidates with the same url.                                           *)
(***************************************************************************)
\* C33: the batch of a run never holds two records with the same url, and
\* no task navigates to a url an earlier task of the run was given.
C33_NoUrlScrapedTwice ==
    /\ \A i, j \in 1..Len(all_details) :
          i # j => all_details[i].url # all_details[j].url
    /\ \A w \in Workers :
          (/\ task[w] # 0
           /\ \E k \in 1..(task[w] - 1) :
                 urls_to_process[k].url = urls_to_process[task[w]].url) => navs[w] = 0

(***************************************************************************)
(* The groups as a partition of the matched subscribers.                   *)
(***************************************************************************)
\* the groups that list an email
GroupsOf(email) ==
    { g \in 1..Len(groups) : \E k \in 1..Len(groups[g].value[1]) : groups[g].value[1][k] = email }

\* every matched subscriber is listed by one group, once
EachMatchedInOneGroup ==
    \A m \in 1..Len(matches) :
        /\ Cardinality(GroupsOf(matches[m].key)) = 1
        /\ \A g \in GroupsOf(matches[m].key) :
              Cardinality({ k \in 1..Len(groups[g].value[1]) :
                              groups[g].value[1][k] = matches[m].key }) = 1

\* no group is without a subscriber or without a listing
NoEmptyGroup ==
    \A g \in 1..Len(groups) : groups[g].value[1] # <<>> /\ groups[g].value[2] # <<>>

\* the listings of a group are the match list of each of its members
GroupListingsAreMembersMatches ==
    \A g \in 1..Len(groups) :
        \A k \in 1..Len(groups[g].value[1]) :
            matches_of(groups[g].value[1][k]) = groups[g].value[2]

\* C34: once the groups are built, every matched subscriber is a member of
\* exactly one group, every group has a subscriber and a listing, and the
\* listing sequence of a group is the match list of each of its members.
C34_GroupsPartitionMatches ==
    Grouped => /\ EachMatchedInOneGroup
               /\ NoEmptyGroup
               /\ GroupListingsAreMembersMatches

\* what holds of C34: the groups partition the matched subscribers and none
\* is empty
C34_GroupsPartitionEmails ==
    Grouped => EachMatchedInOneGroup /\ NoEmptyGroup

\* what holds of C34: the listings of a group are the match list of the
\* first subscriber filed in it
C34_GroupListingsAreFirstMembers ==
    Grouped =>
        \A g \in 1..Len(groups) : matches_of(groups[g].value[1][1]) = groups[g].value[2]

(***************************************************************************)
(* Termination of url discovery.                                           *)
(***************************************************************************)
\* C35: a call of get_urls_only() that has reached the fetch loop returns:
\* the loop is left after finitely many passes, also when the proxy
\* directory returned no proxy or every index-page request fails.
C35_DiscoveryTerminates == (urlPc = "request") ~> (urlPc = "idle")

\* what the code does instead: with no proxy in the list, no step leaves
\* the fetch loop
C35_NoExitWithoutProxy ==
    [][(urlPc \in {"request", "sleep"} /\ proxy_list = <<>>)
          => (urlPc' \in {"request", "sleep"} /\ proxy_list' = <<>>)]_vars

\* what holds of C27: once url discovery has returned, the cycle ends,
\* whatever fails in it, and the driver starts the next one
C27_NextCycleOnceDiscovered ==
    \A c \in 1..(MaxCycles - 1) :
        (cycle = c /\ urlPc = "idle") ~> (cycle = c + 1 /\ mainPc = "discover")

(***************************************************************************)
(* The list a run of notify() works on.                                    *)
(***************************************************************************)
\* list_id = list_id or self.list_id
effective_list_id == IF list_id # None THEN list_id ELSE self_list_id

\* C36: every platform operation of a run of notify() (fetching the
\* subscribers, creating a segment, creating a campaign) is given the
\* list_id argument when one was passed, and the configured list otherwise.
C36_OperationsTargetArgument ==
    \A t \in targets : t.list_id = effective_list_id

\* what the code does: every operation is given the configured list
C36_OperationsTargetConfigured ==
    \A t \in targets : t.list_id = self_list_id

(***************************************************************************)
(* The segments a run leaves behind.                                       *)
(***************************************************************************)
\* the default of the cleanup_segments parameter of notify(); neither
\* notify_subscribers nor main() passes another value
cleanup_segments == TRUE

\* C37: with cleanup_segments set, no segment created by a run of notify()
\* exists in the account any more when notify() has returned, whether its
\* campaign was sent or not.
C37_NoSegmentOutlivesRun ==
    (notifyPc = "done" /\ cleanup_segments) => segments = <<>>

\* what the code does: every segment a run created is still in the account
\* when notify() returns, one for each group whose segment call succeeded
C37_SegmentsKept ==
    notifyPc = "done" =>
        Len(segments) = Cardinality({ k \in 1..Len(dispatch_log) : dispatch_log[k].segment # 0 })

====
